---- MODULE Spec2Model ----
(***************************************************************************)
(* codemap: the incremental indexer (indexer/indexer.ts), the store it     *)
(* writes (db/schema.ts and the query layer) and the watch loop of the     *)
(* 'index' command (commands/index.ts).                                    *)
(*                                                                         *)
(* Three specifications share the variables:                               *)
(*   Spec       buildIndex / updateIndex calls that do not overlap, on a   *)
(*              disk that changes under them, with faults in the per-file  *)
(*              steps;                                                     *)
(*   SpecConc   two calls against the same project root that may overlap,  *)
(*              on a disk that does not change;                            *)
(*   SpecWatch  the watch loop: watcher events, the debounce timer, the    *)
(*              updateIndex calls it starts, and shutdown, on a disk that  *)
(*              does not change.                                           *)
(***************************************************************************)
EXTENDS Integers, Sequences, FiniteSets, TLC

(***************************************************************************)
(* Bounds of the model                                                     *)
(***************************************************************************)
\* number of buildIndex/updateIndex calls in one behaviour
MaxCalls == 2
\* the clock of the disk: it starts at 1 and every write or removal of a
\* file advances it (modification times are 1..MaxClock)
MaxClock == 2
\* number of per-file steps that throw in one behaviour
MaxFaults == 1
\* number of statements of a source file given to the extractor
MaxStmts == 2
\* number of initializeSchema calls in one behaviour
MaxInits == 2

(***************************************************************************)
(* The project on disk                                                     *)
(***************************************************************************)
\* project-relative paths of the source files that may exist
Paths == {"a.ts", "b.ts"}
\* the order in which a listing enumerates them
PathOrder == <<"a.ts", "b.ts">>

\* a file's content is the sequence of its statements, each as its text;
\* the empty file and two small sources
\*   SrcClass:  import { x } from './b'
\*              export class K {
\*                m() {}
\*                y = 1
\*              }
\*   SrcFunc:   import fs from 'fs'
\*              export function f() {}
NoText == << >>
SrcClass == <<"import { x } from './b'", "export class K { m() {} y = 1 }">>
SrcFunc == <<"import fs from 'fs'", "export function f() {}">>
Contents == {NoText, SrcClass, SrcFunc}

NoTime == 0
NoFile == [mtime |-> NoTime, content |-> NoText]
\* the project when the first call is made
InitDisk == [p \in Paths |->
               [mtime |-> 1, content |-> IF p = "a.ts" THEN SrcClass ELSE SrcFunc]]
OnDisk(dk) == {p \in Paths : dk[p].mtime # NoTime}

(***************************************************************************)
(* Store: the four tables of SCHEMA_SQL and the AUTOINCREMENT sequences    *)
(***************************************************************************)
Null == 0
NullPath == "null"
NoOrdinal == -1
NoRow == [present |-> FALSE, language |-> "", modified_at |-> NoTime,
          loc |-> 0, has_default_export |-> FALSE]
EmptyDb == [files |-> [p \in Paths |-> NoRow],
            symbols |-> {}, imports |-> {}, exports |-> {},
            seq |-> [symbols |-> 0, imports |-> 0, exports |-> 0]]

(***************************************************************************)
(* Parser adapter: syntax trees and the queries on them                    *)
(***************************************************************************)
\* a node: its type, the row it starts on (0-based), the text of its span
\* (kept for identifiers and strings) and its children, each with the field
\* name it has in its parent ("" for none)
NoNode == [type |-> "null", row |-> 0, text |-> "", children |-> << >>]
Leaf(type, row, text) == [type |-> type, row |-> row, text |-> text, children |-> << >>]
Tree(type, row, children) == [type |-> type, row |-> row, text |-> "", children |-> children]
Unnamed(node) == [field |-> "", node |-> node]
Field(field, node) == [field |-> field, node |-> node]

\* the statements of the grammar that a source is made of here, as text
Statements ==
  {"function f() {}",
   "function outer() { function inner() {} }",
   "export function f() {}",
   "export default function g() {}",
   "export default 42",
   "const a = () => {}",
   "export const a = () => {}",
   "export const v = 1",
   "var w = 1",
   "class C { m() {} y = 1 }",
   "export class K { m() {} y = 1 }",
   "export default class D { m() {} }",
   "export interface I {}",
   "export default interface J {}",
   "type T = number",
   "export enum E {}",
   "export { f as h }",
   "export { x } from './b'",
   "export * from './b'",
   "export * as ns from 'fs'",
   "import { x } from './b'",
   "import fs from 'fs'",
   "import * as n from './gone'",
   "import './b'",
   "import d, { x as y } from 'fs'",
   "import { p, q as r } from '@s/pkg/sub'",
   "export const o = () => { function i() {} }",
   "export const u = 1, t = 2"}

\* number of lines a statement is written on (a class or an enclosing
\* function has its members on lines of their own)
Height(stmt) ==
  CASE stmt = "class C { m() {} y = 1 }" -> 4
    [] stmt = "export class K { m() {} y = 1 }" -> 4
    [] stmt = "export default class D { m() {} }" -> 3
    [] stmt = "function outer() { function inner() {} }" -> 3
    [] OTHER -> 1

FunctionDeclaration(r, name, body) ==
  Tree("function_declaration", r,
       << Unnamed(Leaf("function", r, "function")),
          Field("name", Leaf("identifier", r, name)),
          Field("body", Tree("statement_block", r, body)) >>)
VariableDeclarator(r, name, valueType) ==
  Tree("variable_declarator", r,
       << Field("name", Leaf("identifier", r, name)),
          Field("value", Leaf(valueType, r, "")) >>)
LexicalDeclaration(r, name, valueType) ==
  Tree("lexical_declaration", r,
       << Unnamed(Leaf("const", r, "const")),
          Unnamed(VariableDeclarator(r, name, valueType)) >>)
VariableDeclaration(r, name, valueType) ==
  Tree("variable_declaration", r,
       << Unnamed(Leaf("var", r, "var")),
          Unnamed(VariableDeclarator(r, name, valueType)) >>)
MethodDefinition(r, name) ==
  Tree("method_definition", r, << Field("name", Leaf("property_identifier", r, name)) >>)
PublicFieldDefinition(r, name) ==
  Tree("public_field_definition", r,
       << Field("name", Leaf("property_identifier", r, name)) >>)
ClassDeclaration(r, name, members) ==
  Tree("class_declaration", r,
       << Unnamed(Leaf("class", r, "class")),
          Field("name", Leaf("type_identifier", r, name)),
          Field("body", Tree("class_body", r, members)) >>)
NamedDeclaration(type, r, name) ==
  Tree(type, r, << Field("name", Leaf("type_identifier", r, name)) >>)
ExportStatement(r, rest) ==
  Tree("export_statement", r, << Unnamed(Leaf("export", r, "export")) >> \o rest)
Specifier(type, r, name, alias) ==
  Tree(type, r,
       << Field("name", Leaf("identifier", r, name)) >>
       \o (IF alias = "" THEN << >> ELSE << Field("alias", Leaf("identifier", r, alias)) >>))
ImportStatement(r, clause, source) ==
  Tree("import_statement", r,
       << Unnamed(Leaf("import", r, "import")) >>
       \o (IF clause = << >> THEN << >> ELSE << Unnamed(Tree("import_clause", r, clause)) >>)
       \o << Field("source", Leaf("string", r, source)) >>)

\* the subtree the grammar gives a statement that starts on row r
Statement(stmt, r) ==
  CASE stmt = "function f() {}" ->
         FunctionDeclaration(r, "f", << >>)
    [] stmt = "function outer() { function inner() {} }" ->
         FunctionDeclaration(r, "outer",
                             << Unnamed(FunctionDeclaration(r + 1, "inner", << >>)) >>)
    [] stmt = "export function f() {}" ->
         ExportStatement(r, << Field("declaration", FunctionDeclaration(r, "f", << >>)) >>)
    [] stmt = "export default function g() {}" ->
         ExportStatement(r, << Unnamed(Leaf("default", r, "default")),
                               Field("declaration", FunctionDeclaration(r, "g", << >>)) >>)
    [] stmt = "export default 42" ->
         ExportStatement(r, << Unnamed(Leaf("default", r, "default")),
                               Field("value", Leaf("number", r, "42")) >>)
    [] stmt = "const a = () => {}" ->
         LexicalDeclaration(r, "a", "arrow_function")
    [] stmt = "export const a = () => {}" ->
         ExportStatement(r, << Field("declaration",
                                     LexicalDeclaration(r, "a", "arrow_function")) >>)
    [] stmt = "export const v = 1" ->
         ExportStatement(r, << Field("declaration", LexicalDeclaration(r, "v", "number")) >>)
    [] stmt = "var w = 1" ->
         VariableDeclaration(r, "w", "number")
    [] stmt = "class C { m() {} y = 1 }" ->
         ClassDeclaration(r, "C", << Unnamed(MethodDefinition(r + 1, "m")),
                                     Unnamed(PublicFieldDefinition(r + 2, "y")) >>)
    [] stmt = "export class K { m() {} y = 1 }" ->
         ExportStatement(r, << Field("declaration",
              ClassDeclaration(r, "K", << Unnamed(MethodDefinition(r + 1, "m")),
                                          Unnamed(PublicFieldDefinition(r + 2, "y")) >>)) >>)
    [] stmt = "export default class D { m() {} }" ->
         ExportStatement(r, << Unnamed(Leaf("default", r, "default")),
                               Field("declaration",
              ClassDeclaration(r, "D", << Unnamed(MethodDefinition(r + 1, "m")) >>)) >>)
    [] stmt = "export interface I {}" ->
         ExportStatement(r, << Field("declaration",
                                     NamedDeclaration("interface_declaration", r, "I")) >>)
    [] stmt = "export default interface J {}" ->
         ExportStatement(r, << Unnamed(Leaf("default", r, "default")),
                               Field("declaration",
                                     NamedDeclaration("interface_declaration", r, "J")) >>)
    [] stmt = "type T = number" ->
         NamedDeclaration("type_alias_declaration", r, "T")
    [] stmt = "export enum E {}" ->
         ExportStatement(r, << Field("declaration",
                                     NamedDeclaration("enum_declaration", r, "E")) >>)
    [] stmt = "export { f as h }" ->
         ExportStatement(r, << Unnamed(Tree("export_clause", r,
              << Unnamed(Specifier("export_specifier", r, "f", "h")) >>)) >>)
    [] stmt = "export { x } from './b'" ->
         ExportStatement(r, << Unnamed(Tree("export_clause", r,
              << Unnamed(Specifier("export_specifier", r, "x", "")) >>)),
                               Field("source", Leaf("string", r, "'./b'")) >>)
    [] stmt = "export * from './b'" ->
         ExportStatement(r, << Unnamed(Leaf("*", r, "*")),
                               Field("source", Leaf("string", r, "'./b'")) >>)
    [] stmt = "export * as ns from 'fs'" ->
         ExportStatement(r, << Unnamed(Tree("namespace_export", r,
              << Unnamed(Leaf("*", r, "*")), Unnamed(Leaf("identifier", r, "ns")) >>)),
                               Field("source", Leaf("string", r, "'fs'")) >>)
    [] stmt = "import { x } from './b'" ->
         ImportStatement(r, << Unnamed(Tree("named_imports", r,
              << Unnamed(Specifier("import_specifier", r, "x", "")) >>)) >>, "'./b'")
    [] stmt = "import fs from 'fs'" ->
         ImportStatement(r, << Unnamed(Leaf("identifier", r, "fs")) >>, "'fs'")
    [] stmt = "import * as n from './gone'" ->
         ImportStatement(r, << Unnamed(Tree("namespace_import", r,
              << Unnamed(Leaf("*", r, "*")), Unnamed(Leaf("identifier", r, "n")) >>)) >>,
                         "'./gone'")
    [] stmt = "import './b'" ->
         ImportStatement(r, << >>, "'./b'")
    [] stmt = "import d, { x as y } from 'fs'" ->
         ImportStatement(r, << Unnamed(Leaf("identifier", r, "d")),
                               Unnamed(Tree("named_imports", r,
              << Unnamed(Specifier("import_specifier", r, "x", "y")) >>)) >>, "'fs'")
    [] stmt = "import { p, q as r } from '@s/pkg/sub'" ->
         ImportStatement(r, << Unnamed(Tree("named_imports", r,
              << Unnamed(Specifier("import_specifier", r, "p", "")),
                 Unnamed(Leaf(",", r, ",")),
                 Unnamed(Specifier("import_specifier", r, "q", "r")) >>)) >>,
                         "'@s/pkg/sub'")
    [] stmt = "export const o = () => { function i() {} }" ->
         ExportStatement(r, << Field("declaration",
              Tree("lexical_declaration", r,
                   << Unnamed(Leaf("const", r, "const")),
                      Unnamed(Tree("variable_declarator", r,
                        << Field("name", Leaf("identifier", r, "o")),
                           Field("value", Tree("arrow_function", r,
                             << Field("body", Tree("statement_block", r,
                                  << Unnamed(FunctionDeclaration(r, "i", << >>)) >>))
                             >>)) >>)) >>)) >>)
    [] stmt = "export const u = 1, t = 2" ->
         ExportStatement(r, << Field("declaration",
              Tree("lexical_declaration", r,
                   << Unnamed(Leaf("const", r, "const")),
                      Unnamed(VariableDeclarator(r, "u", "number")),
                      Unnamed(Leaf(",", r, ",")),
                      Unnamed(VariableDeclarator(r, "t", "number")) >>)) >>)
    [] OTHER -> Tree("ERROR", r, << >>)

\* the row on which the k-th statement of a content starts
RECURSIVE RowOf(_, _)
RowOf(content, k) ==
  IF k = 1 THEN 0 ELSE RowOf(content, k - 1) + Height(content[k - 1])

\* parser.parse(content): the program node with one child per statement
parseFile(content) ==
  Tree("program", 0,
       [k \in 1..Len(content) |-> Unnamed(Statement(content[k], RowOf(content, k)))])

\* content.slice(node.startIndex, node.endIndex)
getNodeText(node) == node.text

HasChild(node, type) ==
  \E k \in 1..Len(node.children) : node.children[k].node.type = type

findChild(node, type) ==
  IF HasChild(node, type)
    THEN node.children[CHOOSE k \in 1..Len(node.children) :
                         /\ node.children[k].node.type = type
                         /\ \A j \in 1..(k - 1) : node.children[j].node.type # type].node
    ELSE NoNode

RECURSIVE findChildrenFrom(_, _, _)
findChildrenFrom(node, type, k) ==
  IF k > Len(node.children) THEN << >>
  ELSE (IF node.children[k].node.type = type THEN << node.children[k].node >> ELSE << >>)
       \o findChildrenFrom(node, type, k + 1)
findChildren(node, type) == findChildrenFrom(node, type, 1)

childForFieldName(node, field) ==
  IF \E k \in 1..Len(node.children) : node.children[k].field = field
    THEN node.children[CHOOSE k \in 1..Len(node.children) :
                         /\ node.children[k].field = field
                         /\ \A j \in 1..(k - 1) : node.children[j].field # field].node
    ELSE NoNode

\* findAllOfType: pre-order; each node found is given with its parent.
\* pending holds the nodes still to visit, the next one first
RECURSIVE traverse(_, _)
traverse(pending, type) ==
  IF pending = << >> THEN << >>
  ELSE LET n == Head(pending)
           children == [k \in 1..Len(n.node.children) |->
                          [node |-> n.node.children[k].node, parent |-> n.node]]
       IN (IF n.node.type = type THEN << n >> ELSE << >>)
          \o traverse(children \o Tail(pending), type)
findAllOfType(node, type) == traverse(<< [node |-> node, parent |-> NoNode] >>, type)

(***************************************************************************)
(* Extractor (extractFromFile is a pure function of the content; symbol    *)
(* references are local ordinals, 0-based)                                 *)
(***************************************************************************)
\* text.replace(/['"]/g, '')
replaceQuotes(text) ==
  CASE text = "'./b'" -> "./b"
    [] text = "'./gone'" -> "./gone"
    [] text = "'fs'" -> "fs"
    [] text = "'@s/pkg/sub'" -> "@s/pkg/sub"
    [] OTHER -> text

\* s.startsWith(prefix), for the specifiers above
startsWith(s, prefix) ==
  <<s, prefix>> \in {<<"./b", ".">>, <<"./gone", ".">>, <<"@s/pkg/sub", "@">>}

\* s.split('/'), for the specifiers above
split(s) ==
  CASE s = "./b" -> <<".", "b">>
    [] s = "./gone" -> <<".", "gone">>
    [] s = "@s/pkg/sub" -> <<"@s", "pkg", "sub">>
    [] OTHER -> <<s>>
\* parts.slice(0, 2).join('/')
joinFirstTwo(parts) ==
  IF Len(parts) < 2 THEN parts[1]
  ELSE IF parts[1] = "@s" /\ parts[2] = "pkg" THEN "@s/pkg"
  ELSE "other"

\* an optional text that is not there
NoAlias == ""
NoPackage == ""

getPackageName(importPath) ==
  IF startsWith(importPath, "@") THEN joinFirstTwo(split(importPath))
  ELSE split(importPath)[1]

isExported(found) == found.parent.type = "export_statement"
\* every declaration taken to be a default export
isDefault_Always(found) == TRUE
isDefault(found) ==
  found.parent.type = "export_statement" /\ HasChild(found.parent, "default")

SymbolInsert(name, kind, node, exported, is_default, parent) ==
  [name |-> name, kind |-> kind, line_start |-> node.row + 1,
   exported |-> exported, is_default |-> is_default, parent_symbol_id |-> parent]

RECURSIVE Concat(_, _)
Concat(seqs, k) ==
  IF k > Len(seqs) THEN << >> ELSE seqs[k] \o Concat(seqs, k + 1)

\* declarations of one type that have a name, as symbols of one kind
RECURSIVE DeclarationSymbols(_, _, _, _)
DeclarationSymbols(found, kind, mayBeDefault, k) ==
  IF k > Len(found) THEN << >>
  ELSE LET nameNode == childForFieldName(found[k].node, "name")
       IN (IF nameNode = NoNode THEN << >>
           ELSE << SymbolInsert(getNodeText(nameNode), kind, found[k].node,
                                isExported(found[k]),
                                mayBeDefault /\ isDefault(found[k]), NoOrdinal) >>)
          \o DeclarationSymbols(found, kind, mayBeDefault, k + 1)

\* the declarators of one const/let/var declaration
RECURSIVE DeclaratorSymbols(_, _, _)
DeclaratorSymbols(varDecl, declarators, k) ==
  IF k > Len(declarators) THEN << >>
  ELSE LET nameNode == childForFieldName(declarators[k], "name")
           valueNode == childForFieldName(declarators[k], "value")
           exported == varDecl.parent.type = "export_statement"
           isDefaultExport == exported /\ HasChild(varDecl.parent, "default")
       IN (IF nameNode = NoNode \/ valueNode = NoNode THEN << >>
           ELSE IF valueNode.type \in {"arrow_function", "function"}
             THEN << SymbolInsert(getNodeText(nameNode), "function", varDecl.node,
                                  exported, isDefaultExport, NoOrdinal) >>
             ELSE << SymbolInsert(getNodeText(nameNode), "variable", varDecl.node,
                                  exported, FALSE, NoOrdinal) >>)
          \o DeclaratorSymbols(varDecl, declarators, k + 1)

VariableSymbols(root) ==
  LET allVarDecls == findAllOfType(root, "lexical_declaration")
                     \o findAllOfType(root, "variable_declaration")
  IN Concat([k \in 1..Len(allVarDecls) |->
               DeclaratorSymbols(allVarDecls[k],
                                 findChildren(allVarDecls[k].node, "variable_declarator"), 1)],
            1)

\* members of one class body that have a name
RECURSIVE MemberSymbols(_, _, _, _)
MemberSymbols(members, kind, classId, k) ==
  IF k > Len(members) THEN << >>
  ELSE LET nameNode == childForFieldName(members[k], "name")
       IN (IF nameNode = NoNode THEN << >>
           ELSE << SymbolInsert(getNodeText(nameNode), kind, members[k],
                                FALSE, FALSE, classId) >>)
          \o MemberSymbols(members, kind, classId, k + 1)

\* the ordinal after the last symbol, taken for the class
ClassId_Next(symbols) == Len(symbols) + 1

\* const classId = symbols.length
ClassId(symbols) == Len(symbols)

\* the class loop from its k-th class on, given the symbols pushed so far
RECURSIVE ClassSymbols(_, _, _)
ClassSymbols(classes, k, symbols) ==
  IF k > Len(classes) THEN symbols
  ELSE LET cls == classes[k]
           nameNode == childForFieldName(cls.node, "name")
           classId == ClassId(symbols)
           body == childForFieldName(cls.node, "body")
       IN IF nameNode = NoNode THEN ClassSymbols(classes, k + 1, symbols)
          ELSE ClassSymbols(classes, k + 1,
                 Append(symbols, SymbolInsert(getNodeText(nameNode), "class", cls.node,
                                              isExported(cls), isDefault(cls), NoOrdinal))
                 \o (IF body = NoNode THEN << >>
                     ELSE MemberSymbols(findChildren(body, "method_definition"),
                                        "method", classId, 1)
                          \o MemberSymbols(findChildren(body, "public_field_definition"),
                                           "property", classId, 1)))

extractSymbols(root) ==
  ClassSymbols(findAllOfType(root, "class_declaration"), 1,
               DeclarationSymbols(findAllOfType(root, "function_declaration"),
                                  "function", TRUE, 1)
               \o VariableSymbols(root))
  \o DeclarationSymbols(findAllOfType(root, "interface_declaration"), "interface", FALSE, 1)
  \o DeclarationSymbols(findAllOfType(root, "type_alias_declaration"), "type", FALSE, 1)
  \o DeclarationSymbols(findAllOfType(root, "enum_declaration"), "enum", FALSE, 1)

\* the specifiers of a named_imports / export_clause node that have a name
RECURSIVE NamedSpecifiers(_, _)
NamedSpecifiers(specifiers, k) ==
  IF k > Len(specifiers) THEN << >>
  ELSE (IF childForFieldName(specifiers[k], "name") = NoNode THEN << >>
        ELSE << specifiers[k] >>)
       \o NamedSpecifiers(specifiers, k + 1)

\* the specifier is kept whether or not the import is external
ImportedPath_Always(isExternal, sourcePath) == sourcePath

\* imported_path: isExternal ? undefined : sourcePath
ImportedPath(isExternal, sourcePath) ==
  IF isExternal THEN NullPath ELSE sourcePath

\* the alias set for every specifier, to its name when it is not renamed
SpecifierAlias_Name(spec) ==
  IF childForFieldName(spec, "alias") # NoNode
    THEN getNodeText(childForFieldName(spec, "alias"))
    ELSE getNodeText(childForFieldName(spec, "name"))

\* alias: aliasNode ? getNodeText(aliasNode, content) : undefined
SpecifierAlias(spec) ==
  IF childForFieldName(spec, "alias") # NoNode
    THEN getNodeText(childForFieldName(spec, "alias"))
    ELSE NoAlias

\* the rows of one import statement
ImportRows(stmt) ==
  LET sourceNode == childForFieldName(stmt, "source")
      sourcePath == replaceQuotes(getNodeText(sourceNode))
      isExternal == ~startsWith(sourcePath, ".") /\ ~startsWith(sourcePath, "/")
      importClause == findChild(stmt, "import_clause")
      namedImports == findChild(importClause, "named_imports")
      namespaceImport == findChild(importClause, "namespace_import")
      specifiers == NamedSpecifiers(findChildren(namedImports, "import_specifier"), 1)
      Row(importedName, alias) ==
        [imported_path |-> ImportedPath(isExternal, sourcePath),
         imported_name |-> importedName,
         alias |-> alias,
         is_external |-> isExternal,
         package_name |-> IF isExternal THEN getPackageName(sourcePath) ELSE NoPackage,
         line_number |-> stmt.row + 1]
  IN IF sourceNode = NoNode THEN << >>
     ELSE IF importClause # NoNode
       THEN (IF findChild(importClause, "identifier") # NoNode
               THEN << Row("default", getNodeText(findChild(importClause, "identifier"))) >>
               ELSE << >>)
            \o [k \in 1..Len(specifiers) |->
                  Row(getNodeText(childForFieldName(specifiers[k], "name")),
                      SpecifierAlias(specifiers[k]))]
            \o (IF namespaceImport # NoNode /\ HasChild(namespaceImport, "identifier")
                  THEN << Row("*", getNodeText(findChild(namespaceImport, "identifier"))) >>
                  ELSE << >>)
       ELSE << Row("*", NoAlias) >>

extractImports(root) ==
  LET importStatements == findAllOfType(root, "import_statement")
  IN Concat([k \in 1..Len(importStatements) |-> ImportRows(importStatements[k].node)], 1)

\* symbols.indexOf(symbols.find(...)): the ordinal of the first symbol with
\* the name / that starts on the line, if any
IndexOfName(symbols, name) ==
  IF \E k \in 1..Len(symbols) : symbols[k].name = name
    THEN (CHOOSE k \in 1..Len(symbols) :
            /\ symbols[k].name = name
            /\ \A j \in 1..(k - 1) : symbols[j].name # name) - 1
    ELSE NoOrdinal
IndexOfLine(symbols, line) ==
  IF \E k \in 1..Len(symbols) : symbols[k].line_start = line
    THEN (CHOOSE k \in 1..Len(symbols) :
            /\ symbols[k].line_start = line
            /\ \A j \in 1..(k - 1) : symbols[j].line_start # line) - 1
    ELSE NoOrdinal

\* no export statement taken to be a re-export
IsReexport_Never(sourceNode) == FALSE

\* const isReexport = sourceNode !== null
IsReexport(sourceNode) == sourceNode # NoNode

\* the rows of one export statement
ExportRows(stmt, symbols) ==
  LET lineNumber == stmt.row + 1
      sourceNode == childForFieldName(stmt, "source")
      isReexport == IsReexport(sourceNode)
      sourcePath == IF sourceNode # NoNode THEN replaceQuotes(getNodeText(sourceNode))
                    ELSE NullPath
      hasDefault == HasChild(stmt, "default")
      exportClause == findChild(stmt, "export_clause")
      specifiers == NamedSpecifiers(findChildren(exportClause, "export_specifier"), 1)
      namespaceExport == findChild(stmt, "namespace_export")
      declaration == childForFieldName(stmt, "declaration")
      symbol == IndexOfLine(symbols, declaration.row + 1)
  IN IF hasDefault
       THEN << [exported_name |-> "default", symbol_id |-> NoOrdinal,
                is_reexport |-> isReexport, source_path |-> sourcePath,
                line_number |-> lineNumber] >>
     ELSE IF exportClause # NoNode
       THEN [k \in 1..Len(specifiers) |->
               LET localName == getNodeText(childForFieldName(specifiers[k], "name"))
                   aliasNode == childForFieldName(specifiers[k], "alias")
               IN [exported_name |-> IF aliasNode # NoNode THEN getNodeText(aliasNode)
                                     ELSE localName,
                   symbol_id |-> IndexOfName(symbols, localName),
                   is_reexport |-> isReexport, source_path |-> sourcePath,
                   line_number |-> lineNumber]]
     ELSE IF namespaceExport # NoNode \/ HasChild(stmt, "*")
       THEN << [exported_name |-> "*", symbol_id |-> NoOrdinal,
                is_reexport |-> TRUE, source_path |-> sourcePath,
                line_number |-> lineNumber] >>
     ELSE IF declaration # NoNode /\ symbol # NoOrdinal
       THEN << [exported_name |-> symbols[symbol + 1].name, symbol_id |-> symbol,
                is_reexport |-> FALSE, source_path |-> NullPath,
                line_number |-> lineNumber] >>
     ELSE << >>

extractExports(root, symbols) ==
  LET exportStatements == findAllOfType(root, "export_statement")
  IN Concat([k \in 1..Len(exportStatements) |->
               ExportRows(exportStatements[k].node, symbols)], 1)

ExtractionResult(symbols, imports, exports) ==
  [symbols |-> symbols, imports |-> imports, exports |-> exports,
   hasDefaultExport |-> \E k \in 1..Len(exports) : exports[k].exported_name = "default"]
ExtractWithSymbols(root, symbols) ==
  ExtractionResult(symbols, extractImports(root), extractExports(root, symbols))
ExtractFromTree(root) == ExtractWithSymbols(root, extractSymbols(root))
extractFromFile(content) == ExtractFromTree(parseFile(content))

\* content.split('\n').length
countLines(content) ==
  IF content = << >> THEN 1
  ELSE RowOf(content, Len(content)) + Height(content[Len(content)])

\* the paths resolveImportPath probes for a relative specifier of a file in
\* the project root: the specifier with each extension, in order
ImportCandidates(importPath) ==
  IF importPath = "./b"
    THEN <<"b.ts", "b.tsx", "b.js", "b.jsx", "b.mjs", "b.cjs", "b">>
  ELSE IF importPath = "./gone"
    THEN <<"gone.ts", "gone.tsx", "gone.js", "gone.jsx", "gone.mjs", "gone.cjs", "gone">>
    ELSE << >>

IsRelative(importPath) == startsWith(importPath, ".") \/ startsWith(importPath, "/")

resolveImportPath(importPath, dk) ==
  IF ~IsRelative(importPath) THEN NullPath
  ELSE LET c == ImportCandidates(importPath)
           hits == {k \in DOMAIN c : c[k] \in OnDisk(dk)}
       IN IF hits = {} THEN NullPath
          ELSE c[CHOOSE k \in hits : \A j \in hits : k <= j]

(***************************************************************************)
(* Query layer: row writes                                                 *)
(***************************************************************************)
\* rows of the four tables owned by one file
FileRows(d, path) ==
  [file |-> d.files[path],
   symbols |-> {s \in d.symbols : s.file_path = path},
   imports |-> {m \in d.imports : m.importer_path = path},
   exports |-> {e \in d.exports : e.file_path = path}]

NoRows == [file |-> NoRow, symbols |-> {}, imports |-> {}, exports |-> {}]

\* delete the rows of one file in all four tables; the foreign keys of
\* SCHEMA_SQL cascade: member symbols go with their parent, an export of
\* another file that points to a deleted symbol has its symbol_id set null
deleteFileData(d, path) ==
  LET gone == {s.id : s \in {t \in d.symbols : t.file_path = path}}
      goneAll == gone \cup {s.id : s \in {t \in d.symbols : t.parent_symbol_id \in gone}}
  IN [d EXCEPT
        !.files[path] = NoRow,
        !.symbols = {s \in d.symbols : s.id \notin goneAll},
        !.imports = {m \in d.imports : m.importer_path # path},
        !.exports = {IF e.symbol_id \in goneAll THEN [e EXCEPT !.symbol_id = Null] ELSE e :
                       e \in {x \in d.exports : x.file_path # path}}]

insertFile(d, path, row) ==
  [d EXCEPT !.files[path] = row]

\* INTEGER PRIMARY KEY AUTOINCREMENT: the id is one more than the largest
\* id the table has ever held
insertSymbol(d, path, symbol) ==
  LET id == d.seq.symbols + 1
  IN [db |-> [d EXCEPT !.symbols = @ \cup {[id |-> id, file_path |-> path,
                                           name |-> symbol.name, kind |-> symbol.kind,
                                           line_start |-> symbol.line_start,
                                           exported |-> symbol.exported,
                                           is_default |-> symbol.is_default,
                                           parent_symbol_id |-> symbol.parent_symbol_id]},
                       !.seq.symbols = id],
      id |-> id]

insertImport(d, path, imp) ==
  LET id == d.seq.imports + 1
  IN [d EXCEPT !.imports = @ \cup {[id |-> id, importer_path |-> path,
                                    imported_path |-> imp.imported_path,
                                    imported_name |-> imp.imported_name,
                                    alias |-> imp.alias,
                                    is_external |-> imp.is_external,
                                    package_name |-> imp.package_name,
                                    line_number |-> imp.line_number]},
               !.seq.imports = id]

insertExport(d, path, exp) ==
  LET id == d.seq.exports + 1
  IN [d EXCEPT !.exports = @ \cup {[id |-> id, file_path |-> path,
                                    exported_name |-> exp.exported_name,
                                    symbol_id |-> exp.symbol_id,
                                    is_reexport |-> exp.is_reexport,
                                    source_path |-> exp.source_path,
                                    line_number |-> exp.line_number]},
               !.seq.exports = id]

\* clearDatabase: DELETE FROM on the four tables (sqlite_sequence stays)
clearDatabase(d) ==
  [d EXCEPT !.files = [p \in Paths |-> NoRow],
            !.symbols = {}, !.imports = {}, !.exports = {}]

(***************************************************************************)
(* Per-file processing (buildIndex.processFile and updateIndex.processFile *)
(* are the same code)                                                      *)
(***************************************************************************)
\* a fault: the k-th operation of the named step throws ("none": no fault)
FailSteps == {"none", "extract", "delete", "insertFile",
              "insertSymbol", "insertImport", "insertExport"}
Fails == [step : FailSteps, k : {1}] \cup {[step |-> "insertSymbol", k |-> 2]}
NoFail == [step |-> "none", k |-> 1]

\* the id taken to be the local ordinal plus one
SymbolIdsGet_Ordinal(ids, ordinal) ==
  IF ordinal # NoOrdinal THEN ordinal + 1 ELSE Null

\* symbolIds.get(ordinal): the id persisted for a local ordinal, if any
SymbolIdsGet(ids, ordinal) ==
  IF ordinal # NoOrdinal /\ (ordinal + 1) \in DOMAIN ids THEN ids[ordinal + 1] ELSE Null

\* the symbol loop after its first n iterations: the store and symbolIds
RECURSIVE InsertSymbolsUpTo(_, _, _, _)
InsertSymbolsUpTo(d, path, symbols, n) ==
  IF n = 0 THEN [db |-> d, ids |-> << >>]
  ELSE LET prev == InsertSymbolsUpTo(d, path, symbols, n - 1)
           symbol == symbols[n]
           parentId == SymbolIdsGet(prev.ids, symbol.parent_symbol_id)
           ins == insertSymbol(prev.db, path, [symbol EXCEPT !.parent_symbol_id = parentId])
       IN [db |-> ins.db, ids |-> Append(prev.ids, ins.id)]

\* resolvedPath = resolveImportPath(...) ?? resolvedPath
ResolveImport(imp, dk) ==
  IF imp.imported_path # NullPath /\ ~imp.is_external
    THEN LET r == resolveImportPath(imp.imported_path, dk)
         IN IF r # NullPath THEN r ELSE imp.imported_path
    ELSE imp.imported_path

RECURSIVE InsertImportsUpTo(_, _, _, _, _)
InsertImportsUpTo(d, path, imports, n, dk) ==
  IF n = 0 THEN d
  ELSE LET imp == imports[n]
       IN insertImport(InsertImportsUpTo(d, path, imports, n - 1, dk), path,
                       [imp EXCEPT !.imported_path = ResolveImport(imp, dk)])

RECURSIVE InsertExportsUpTo(_, _, _, _, _)
InsertExportsUpTo(d, path, exports, ids, n) ==
  IF n = 0 THEN d
  ELSE LET exp == exports[n]
       IN insertExport(InsertExportsUpTo(d, path, exports, ids, n - 1), path,
                       [exp EXCEPT !.symbol_id = SymbolIdsGet(ids, exp.symbol_id)])

\* the body of the try block, r being what extractFromFile returns: the
\* store as the statements leave it, and whether one of them threw
ProcessBody(d, file, r, fail, dk) ==
  LET nS == Len(r.symbols)
      nI == Len(r.imports)
      nE == Len(r.exports)
      ThrowsAt(step, n) == fail.step = step /\ fail.k <= n
      d1 == deleteFileData(d, file.path)
      d2 == insertFile(d1, file.path,
                       [present |-> TRUE, language |-> "typescript",
                        modified_at |-> file.mtime,
                        loc |-> countLines(file.content),
                        has_default_export |-> r.hasDefaultExport])
      s == InsertSymbolsUpTo(d2, file.path, r.symbols,
                             IF ThrowsAt("insertSymbol", nS) THEN fail.k - 1 ELSE nS)
      d3 == InsertImportsUpTo(s.db, file.path, r.imports,
                              IF ThrowsAt("insertImport", nI) THEN fail.k - 1 ELSE nI, dk)
      d4 == InsertExportsUpTo(d3, file.path, r.exports, s.ids,
                              IF ThrowsAt("insertExport", nE) THEN fail.k - 1 ELSE nE)
  IN IF ThrowsAt("extract", 1) THEN [db |-> d, thrown |-> TRUE]
     ELSE IF ThrowsAt("delete", 1) THEN [db |-> d, thrown |-> TRUE]
     ELSE IF ThrowsAt("insertFile", 1) THEN [db |-> d1, thrown |-> TRUE]
     ELSE IF ThrowsAt("insertSymbol", nS) THEN [db |-> s.db, thrown |-> TRUE]
     ELSE IF ThrowsAt("insertImport", nI) THEN [db |-> d3, thrown |-> TRUE]
     ELSE IF ThrowsAt("insertExport", nE) THEN [db |-> d4, thrown |-> TRUE]
     ELSE [db |-> d4, thrown |-> FALSE]

\* no catch: the exception leaves the function unrecorded
TryCatch_Rethrow(thrown) ==
  [escaped |-> thrown, recorded |-> FALSE]

\* try { ... } catch (e) { errors.push(...) }: the exception is recorded and
\* does not leave the function
TryCatch(thrown) ==
  [escaped |-> FALSE, recorded |-> thrown]

\* db.transaction(fn): commits what fn wrote unless an exception leaves fn,
\* in which case it rolls back and rethrows
transaction(before, after, escaped) ==
  IF escaped THEN before ELSE after

\* outcome of processFile(file): "skipped" (no content), "ok", "error"
\* (caught and recorded) or "escaped" (thrown out of the transaction)
Settle(d, body, tc) ==
  [db |-> transaction(d, body.db, tc.escaped),
   outcome |-> IF tc.escaped THEN "escaped"
               ELSE IF tc.recorded THEN "error" ELSE "ok"]
Caught(d, body) == Settle(d, body, TryCatch(body.thrown))
\* r is what extractFromFile returns for the file
ProcessExtracted(d, file, r, fail, dk) ==
  IF file.content = NoText THEN [db |-> d, outcome |-> "skipped"]
  ELSE Caught(d, ProcessBody(d, file, r, fail, dk))
processFile(d, file, fail, dk) ==
  ProcessExtracted(d, file, extractFromFile(file.content), fail, dk)

(***************************************************************************)
(* Query layer: batch diff helpers                                         *)
(***************************************************************************)
Indexed(d) == {p \in Paths : d.files[p].present}

\* indexed and on disk with a newer modification time than the stored one
getStaleFiles(d, currentFiles) ==
  {p \in Indexed(d) : currentFiles[p] # NoTime /\ d.files[p].modified_at < currentFiles[p]}

\* on disk, not indexed
getNewFiles(d, currentFiles) ==
  {p \in Paths : currentFiles[p] # NoTime /\ p \notin Indexed(d)}

\* indexed, absent from disk
getDeletedFiles(d, currentFiles) ==
  {p \in Indexed(d) : currentFiles[p] = NoTime}

\* the members of a set of paths as a list, in listing order
RECURSIVE ListFrom(_, _)
ListFrom(S, k) ==
  IF k > Len(PathOrder) THEN << >>
  ELSE (IF PathOrder[k] \in S THEN <<PathOrder[k]>> ELSE << >>) \o ListFrom(S, k + 1)
ListOf(S) == ListFrom(S, 1)

\* the loop left out
DeleteAll_None(d, list) == d

\* for (const path of deletedFiles) deleteFileData(db, path)
RECURSIVE DeleteAll(_, _)
DeleteAll(d, list) ==
  IF list = << >> THEN d ELSE DeleteAll(deleteFileData(d, Head(list)), Tail(list))

(***************************************************************************)
(* Store connection                                                        *)
(***************************************************************************)
\* createDatabase: a fresh store
createDatabase(d) == EmptyDb
\* getDatabase: the existing store, as it is
getDatabase(d) == d

(***************************************************************************)
(* Configuration (indexer/parser.ts); extensions are kept without the dot  *)
(* and the include and exclude patterns are the default ones               *)
(***************************************************************************)
NoConfigFile == [exists |-> FALSE, text |-> ""]
ConfigFile(text) == [exists |-> TRUE, text |-> text]
\* an empty object, a text that is no JSON, and a configuration that takes
\* the JavaScript extensions out of the language set
ConfigTexts == {"{}", "{", "{\"languages\":{\"javascript\":[]}}"}
ConfigFiles == {NoConfigFile} \cup {ConfigFile(text) : text \in ConfigTexts}

\* a property of the parsed object: absent, or present with its value
Undefined == [defined |-> FALSE, value |-> {}]
Defined(value) == [defined |-> TRUE, value |-> value]
\* the configuration a call has when loadConfig threw
NoConfig == [languages |-> [typescript |-> {}, javascript |-> {}]]
DEFAULT_CONFIG ==
  [languages |-> [typescript |-> {"ts", "tsx", "mts", "cts"},
                  javascript |-> {"js", "jsx", "mjs", "cjs"}]]

\* JSON.parse
JSONParse(text) ==
  CASE text = "{}" ->
         [threw |-> FALSE, languages |-> [typescript |-> Undefined, javascript |-> Undefined]]
    [] text = "{\"languages\":{\"javascript\":[]}}" ->
         [threw |-> FALSE, languages |-> [typescript |-> Undefined, javascript |-> Defined({})]]
    [] OTHER -> [threw |-> TRUE, languages |-> [typescript |-> Undefined, javascript |-> Undefined]]

\* a ?? b
OrElse(a, b) == IF a.defined THEN a.value ELSE b

loadConfig(file) ==
  IF ~file.exists THEN [threw |-> "none", config |-> DEFAULT_CONFIG]
  ELSE IF JSONParse(file.text).threw THEN [threw |-> "ConfigError", config |-> NoConfig]
  ELSE [threw |-> "none",
        config |-> [languages |->
                     [typescript |-> OrElse(JSONParse(file.text).languages.typescript,
                                            DEFAULT_CONFIG.languages.typescript),
                      javascript |-> OrElse(JSONParse(file.text).languages.javascript,
                                            DEFAULT_CONFIG.languages.javascript)]]]

getAllExtensions(cfg) == cfg.languages.typescript \cup cfg.languages.javascript

(***************************************************************************)
(* State                                                                   *)
(***************************************************************************)
Procs == {1, 2}

VARIABLES
  disk,      \* path -> [mtime, content], NoFile when absent
  clock,     \* the largest modification time handed out
  db,        \* the store
  inv,       \* per call slot: the locals of a buildIndex/updateIndex call
  calls,     \* number of calls started
  faults,    \* number of per-file steps that threw
  lastOk,    \* path -> what its rows were last completely written from
  watch,     \* the watch loop: watcher, pendingChanges, debounceTimer, timers
  burst,     \* time since the last accepted event, and counts for the burst
  schema,    \* the schema_version table, and the initializeSchema calls made
  lookup,    \* the where command: the query, its stage and what it found
  config     \* the file codemap.config.json of the project root

vars == <<disk, clock, db, inv, calls, faults, lastOk, watch, burst, schema, lookup,
          config>>

NoScan == [p \in Paths |-> NoTime]
IdleInv == [pc |-> "idle", kind |-> "none", force |-> FALSE,
            currentFiles |-> NoScan, before |-> NoScan,
            files |-> << >>, idx |-> 0,
            filesIndexed |-> 0, errors |-> << >>,
            extracted |-> {}, threw |-> {}, reindexed |-> {}, thrown |-> "none"]
NoneOk == [content |-> NoText, onDisk |-> {}]

StoredTimes(d) == [p \in Paths |-> d.files[p].modified_at]

\* lastOk after a step: okPath was completely written from okContent (or
\* okPath = NullPath); any other change to a file's rows forgets it
TrackLastOk(dNew, dkNew, okPath, okContent) ==
  [p \in Paths |->
     IF p = okPath THEN [content |-> okContent, onDisk |-> OnDisk(dkNew)]
     ELSE IF FileRows(dNew, p) # FileRows(db, p) THEN NoneOk
     ELSE lastOk[p]]

\* the watch loop before startWatchMode has run
NoTimer == -1
WatchOff == [watcher |-> FALSE, pendingChanges |-> {}, debounceTimer |-> NoTimer,
             timers |-> {}, exited |-> FALSE]
NoBurst == [sinceEvent |-> 0, events |-> 0, updates |-> 0, shutdown |-> FALSE]

\* the schema_version table before initializeSchema has run
NoSchema == [version |-> {}, inits |-> 0]
\* the where command before it is run
NoError == [name |-> "none", symbol |-> << >>, suggestions |-> {}]
NoLookup == [pc |-> "idle", symbol |-> << >>, ran |-> << >>, after |-> << >>,
             results |-> {}, thrown |-> NoError]

\* the file's rows were last completely written from the content it has
SameAsLastOk(file) ==
  /\ file.content # NoText
  /\ lastOk[file.path].content = file.content
\* the files on disk are those that were there at that time
SameDiskAsLastOk(file) ==
  lastOk[file.path].onDisk = OnDisk(disk)

Init ==
  /\ disk = InitDisk
  /\ clock = 1
  /\ db = EmptyDb
  /\ inv = [i \in Procs |-> IdleInv]
  /\ calls = 0
  /\ faults = 0
  /\ lastOk = [p \in Paths |-> NoneOk]
  /\ watch = WatchOff
  /\ burst = NoBurst
  /\ schema = NoSchema
  /\ lookup = NoLookup
  /\ config = NoConfigFile

(***************************************************************************)
(* The disk changes under the indexer                                      *)
(***************************************************************************)
WriteFile(p, c) ==
  /\ clock < MaxClock
  /\ clock' = clock + 1
  /\ disk' = [disk EXCEPT ![p] = [mtime |-> clock + 1, content |-> c]]
  /\ UNCHANGED <<db, inv, calls, faults, lastOk, watch, burst, schema, lookup, config>>

RemoveFile(p) ==
  /\ p \in OnDisk(disk)
  /\ clock < MaxClock
  /\ clock' = clock + 1
  /\ disk' = [disk EXCEPT ![p] = NoFile]
  /\ UNCHANGED <<db, inv, calls, faults, lastOk, watch, burst, schema, lookup, config>>

(***************************************************************************)
(* buildIndex and updateIndex, step by step                                *)
(***************************************************************************)
\* the time of a later version taken for the file
RECURSIVE StatFiles_Later(_, _)
StatFiles_Later(list, dk) ==
  IF list = << >> THEN << >>
  ELSE (IF Head(list) \in OnDisk(dk)
          THEN << [path |-> Head(list), mtime |-> dk[Head(list)].mtime + 1, content |-> NoText] >>
          ELSE << >>) \o StatFiles_Later(Tail(list), dk)

\* statSync of each listed path: a path that is gone is left out
RECURSIVE StatFiles(_, _)
StatFiles(list, dk) ==
  IF list = << >> THEN << >>
  ELSE (IF Head(list) \in OnDisk(dk)
          THEN << [path |-> Head(list), mtime |-> dk[Head(list)].mtime, content |-> NoText] >>
          ELSE << >>) \o StatFiles(Tail(list), dk)

\* entry of the call: loadConfig, then the store is opened (created anew
\* when force is set)
\* the store is opened: createDatabase or getDatabase, which throw when the
\* store cannot be opened and leave it as it was
OpenStore(d, kind, force, opens) ==
  IF ~opens THEN [db |-> d, thrown |-> "StoreError"]
  ELSE [db |-> IF kind = "build" /\ force THEN createDatabase(d) ELSE getDatabase(d),
        thrown |-> "none"]

\* the store opened before the configuration is loaded
EnterCall_OpenFirst(d, loaded, kind, force, opens) ==
  IF loaded.threw # "none"
    THEN [db |-> OpenStore(d, kind, force, opens).db, thrown |-> loaded.threw]
    ELSE OpenStore(d, kind, force, opens)

\* buildIndex and updateIndex up to the open of the store: loadConfig
\* first, and its exception leaves the function
EnterCall(d, loaded, kind, force, opens) ==
  IF loaded.threw # "none" THEN [db |-> d, thrown |-> loaded.threw]
  ELSE OpenStore(d, kind, force, opens)

Entered(i, kind, force, res) ==
  /\ db' = res.db
  /\ inv' = [inv EXCEPT ![i] =
               [IdleInv EXCEPT !.pc = IF res.thrown = "none" THEN "scan" ELSE "aborted",
                               !.kind = kind, !.force = force, !.thrown = res.thrown]]
  /\ lastOk' = TrackLastOk(res.db, disk, NullPath, NoText)

\* opens: whether the store can be opened, a fault when it cannot
Enter(i, kind, force, opens) ==
  /\ inv[i].pc = "idle"
  /\ kind = "update" => ~force
  /\ \E open \in opens :
       /\ ~open => faults < MaxFaults /\ loadConfig(config).threw = "none"
       /\ faults' = IF open THEN faults ELSE faults + 1
       /\ Entered(i, kind, force, EnterCall(db, loadConfig(config), kind, force, open))
  /\ UNCHANGED <<disk, clock, config>>

\* a call made from the command line
Start(i, kind, force, opens) ==
  /\ calls < MaxCalls
  /\ calls' = calls + 1
  /\ Enter(i, kind, force, opens)
  /\ UNCHANGED <<watch, burst, schema, lookup>>

\* scanDirectory resolves: the listing with modification times
\* (buildIndex: inside scanAndLoadFiles; updateIndex: getFileModTimes)
ScanDir(i) ==
  /\ inv[i].pc = "scan"
  /\ LET listing == [p \in Paths |-> disk[p].mtime]
     IN inv' = [inv EXCEPT ![i] =
                  IF inv[i].kind = "build"
                    THEN [@ EXCEPT !.currentFiles = listing,
                                   !.before = StoredTimes(db),
                                   !.files = StatFiles(ListOf(OnDisk(disk)), disk),
                                   !.pc = "load"]
                    ELSE [@ EXCEPT !.currentFiles = listing, !.pc = "diff"]]
  /\ UNCHANGED <<disk, clock, db, calls, faults, lastOk, watch, burst, schema, lookup, config>>

\* updateIndex: stale/new/deleted sets, removal of deleted files, early
\* return when nothing is to be processed, else stat of the files to load
Diff(i) ==
  /\ inv[i].pc = "diff"
  /\ LET staleFiles == getStaleFiles(db, inv[i].currentFiles)
         newFiles == getNewFiles(db, inv[i].currentFiles)
         deletedFiles == getDeletedFiles(db, inv[i].currentFiles)
         filesToProcess == ListOf(staleFiles) \o ListOf(newFiles)
     IN /\ db' = DeleteAll(db, ListOf(deletedFiles))
        /\ inv' = [inv EXCEPT ![i] =
                     IF filesToProcess = << >>
                       THEN [@ EXCEPT !.before = StoredTimes(db), !.pc = "done"]
                       ELSE [@ EXCEPT !.before = StoredTimes(db),
                                      !.files = StatFiles(filesToProcess, disk),
                                      !.pc = "load"]]
  /\ lastOk' = TrackLastOk(db', disk, NullPath, NoText)
  /\ UNCHANGED <<disk, clock, calls, faults, watch, burst, schema, lookup, config>>

\* scanAndLoadFiles: readFileContent of each file; a failed read gives ''
LoadContent(i) ==
  /\ inv[i].pc = "load"
  /\ inv' = [inv EXCEPT ![i] =
               [@ EXCEPT !.files = [k \in DOMAIN inv[i].files |->
                                      [inv[i].files[k] EXCEPT !.content =
                                         IF inv[i].files[k].path \in OnDisk(disk)
                                           THEN disk[inv[i].files[k].path].content
                                           ELSE NoText]],
                         !.idx = 1,
                         !.pc = "process"]]
  /\ UNCHANGED <<disk, clock, db, calls, faults, lastOk, watch, burst, schema, lookup, config>>

\* one iteration of the file loop: processFile(files[i])
\* res is what processFile(file) has done
Processed(i, fail, file, res) ==
  /\ db' = res.db
  /\ inv' = [inv EXCEPT ![i] =
               [@ EXCEPT !.idx = @ + 1,
                         !.filesIndexed = IF res.outcome = "ok" THEN @ + 1 ELSE @,
                         !.errors = IF res.outcome = "error"
                                      THEN Append(@, [file |-> file.path, error |-> fail.step])
                                      ELSE @,
                         !.extracted = IF res.outcome = "skipped" THEN @ ELSE @ \cup {file.path},
                         !.threw = IF res.outcome \in {"error", "escaped"} THEN @ \cup {file.path} ELSE @,
                         !.reindexed = IF res.outcome = "ok" /\ SameAsLastOk(file) THEN @ \cup {file.path} ELSE @,
                         !.pc = IF res.outcome = "escaped" THEN "failed" ELSE @]]
  /\ lastOk' = IF res.outcome = "ok"
                 THEN TrackLastOk(db', disk, file.path, file.content)
                 ELSE TrackLastOk(db', disk, NullPath, NoText)

\* one of the faults of the set happens (NoFail: none), r being what
\* extractFromFile returns for the file
ProcessWith(i, fails, file, r) ==
  \E fail \in fails :
    /\ fail.step # "none" => faults < MaxFaults
    /\ faults' = IF fail.step # "none" THEN faults + 1 ELSE faults
    /\ Processed(i, fail, file, ProcessExtracted(db, file, r, fail, disk))

ProcessFile(i, fails) ==
  /\ inv[i].pc = "process"
  /\ inv[i].idx <= Len(inv[i].files)
  /\ ProcessWith(i, fails, inv[i].files[inv[i].idx],
                 extractFromFile(inv[i].files[inv[i].idx].content))
  /\ UNCHANGED <<disk, clock, calls, watch, burst, schema, lookup, config>>

\* the loop is over: the result is returned
Return(i) ==
  /\ inv[i].pc = "process"
  /\ inv[i].idx > Len(inv[i].files)
  /\ inv' = [inv EXCEPT ![i].pc = "done"]
  /\ UNCHANGED <<disk, clock, db, calls, faults, lastOk, watch, burst, schema, lookup, config>>

\* the caller drops the result
Reset(i) ==
  /\ inv[i].pc \in {"done", "failed", "aborted"}
  /\ inv' = [inv EXCEPT ![i] = IdleInv]
  /\ UNCHANGED <<disk, clock, db, calls, faults, lastOk, watch, burst, schema, lookup, config>>

Step(i) ==
  \/ \E kind \in {"build", "update"}, force \in BOOLEAN : Start(i, kind, force, {TRUE})
  \/ ScanDir(i)
  \/ Diff(i)
  \/ LoadContent(i)
  \/ ProcessFile(i, Fails)
  \/ Return(i)
  \/ Reset(i)

Env ==
  \/ \E p \in Paths, c \in Contents : WriteFile(p, c)
  \/ \E p \in Paths : RemoveFile(p)

\* calls that do not overlap
Next == Env \/ Step(1)
Spec == Init /\ [][Next]_vars

\* two calls against the same project root
NextConc == \E i \in Procs : Step(i)
SpecConc == Init /\ [][NextConc]_vars

(***************************************************************************)
(* Calls on a project whose configuration file is edited between them and  *)
(* whose store may fail to open                                            *)
(***************************************************************************)
WriteConfig(file) ==
  /\ file # config
  /\ config' = file
  /\ UNCHANGED <<disk, clock, db, inv, calls, faults, lastOk, watch, burst, schema,
                 lookup>>

NextConfig ==
  \/ \E file \in ConfigFiles : WriteConfig(file)
  \/ \E kind \in {"build", "update"}, force \in BOOLEAN : Start(1, kind, force, BOOLEAN)
  \/ ScanDir(1)
  \/ Diff(1)
  \/ LoadContent(1)
  \/ ProcessFile(1, {NoFail})
  \/ Return(1)
  \/ Reset(1)

SpecConfig == Init /\ [][NextConfig]_vars

(***************************************************************************)
(* The extractor on every source of up to MaxStmts statements: a.ts has    *)
(* the source, and one forced build indexes the project                    *)
(***************************************************************************)
Sources == UNION {[1..n -> Statements] : n \in 0..MaxStmts}

InitExtract ==
  /\ disk \in {[InitDisk EXCEPT !["a.ts"].content = c] : c \in Sources}
  /\ clock = 1
  /\ db = EmptyDb
  /\ inv = [i \in Procs |-> IdleInv]
  /\ calls = 0
  /\ faults = 0
  /\ lastOk = [p \in Paths |-> NoneOk]
  /\ watch = WatchOff
  /\ burst = NoBurst
  /\ schema = NoSchema
  /\ lookup = NoLookup
  /\ config = NoConfigFile

NextExtract ==
  \/ calls = 0 /\ Start(1, "build", TRUE, {TRUE})
  \/ ScanDir(1)
  \/ LoadContent(1)
  \/ ProcessFile(1, {NoFail})
  \/ Return(1)

SpecExtract == InitExtract /\ [][NextExtract]_vars

(***************************************************************************)
(* Watch mode (startWatchMode; the TUI and the plain variant share the     *)
(* logic modelled here)                                                    *)
(***************************************************************************)
DEBOUNCE_MS == 300
\* granularity of the passage of time, in ms
TickMs == 100

Min(a, b) == IF a < b THEN a ELSE b
Max(a, b) == IF a > b THEN a ELSE b

\* file names the watcher reports: the path components and the text after
\* the last '.', and the report without a file name
NoName == [parts |-> << >>, ext |-> ""]
WatchNames ==
  { [parts |-> <<"a.ts">>, ext |-> "ts"],
    [parts |-> <<"b.TS">>, ext |-> "TS"],
    [parts |-> <<"node_modules", "x.ts">>, ext |-> "ts"],
    [parts |-> <<"README.md">>, ext |-> "md"],
    [parts |-> <<"c.js">>, ext |-> "js"],
    NoName }

ignoreDirs == {"node_modules", ".git", "dist", "build", ".codemap", "coverage", "__pycache__"}

ToLowerCase(e) == IF e = "TS" THEN "ts" ELSE e

getLanguageFromExtension(name) ==
  LET ext == ToLowerCase(name.ext)
  IN IF ext \in {"ts", "tsx", "mts", "cts"} THEN "typescript"
     ELSE IF ext \in {"js", "jsx", "mjs", "cjs"} THEN "javascript"
     ELSE "null"

shouldWatch(name) ==
  /\ \A k \in DOMAIN name.parts : name.parts[k] \notin ignoreDirs
  /\ getLanguageFromExtension(name) # "null"

\* the pending timer left armed
handleChange_NoClear(w, name) ==
  [w EXCEPT !.pendingChanges = @ \cup {name},
            !.timers = @ \cup {DEBOUNCE_MS},
            !.debounceTimer = DEBOUNCE_MS]

\* the pending timer cleared and none armed
handleChange_NoArm(w, name) ==
  [w EXCEPT !.pendingChanges = @ \cup {name},
            !.timers = IF w.debounceTimer # NoTimer THEN @ \ {w.debounceTimer} ELSE @,
            !.debounceTimer = NoTimer]

\* handleChange: the path joins the pending set, the pending timer is
\* cleared and a new one is armed (a timer is named by the time left to it)
handleChange(w, name) ==
  [w EXCEPT !.pendingChanges = @ \cup {name},
            !.timers = (IF w.debounceTimer # NoTimer THEN @ \ {w.debounceTimer} ELSE @)
                         \cup {DEBOUNCE_MS},
            !.debounceTimer = DEBOUNCE_MS]

\* the pending timer left armed at exit
cleanup_NoClear(w) ==
  [w EXCEPT !.watcher = FALSE, !.exited = TRUE]

\* cleanup: the watcher is closed, the pending timer cleared, the process
\* exits
cleanup(w) ==
  [w EXCEPT !.watcher = FALSE,
            !.timers = IF w.debounceTimer # NoTimer THEN @ \ {w.debounceTimer} ELSE @,
            !.exited = TRUE]

\* the part of updateIndex after the listing has resolved runs without
\* returning to the event loop
InSync(i) == inv[i].pc \in {"diff", "load", "process"}
LoopFree == ~watch.exited /\ \A i \in Procs : ~InSync(i)

\* the watcher's callback; a due timer runs before it
WatchEvent(name) ==
  /\ LoopFree
  /\ watch.watcher
  /\ 0 \notin watch.timers
  /\ IF name = NoName \/ ~shouldWatch(name)
       THEN UNCHANGED <<watch, burst>>
       ELSE /\ watch' = handleChange(watch, name)
            /\ burst' = IF burst.sinceEvent >= DEBOUNCE_MS
                          THEN [burst EXCEPT !.sinceEvent = 0, !.events = 1, !.updates = 0]
                          ELSE [burst EXCEPT !.sinceEvent = 0, !.events = Min(2, @ + 1)]
  /\ UNCHANGED <<disk, clock, db, inv, calls, faults, lastOk, schema, lookup, config>>

\* a timer fires: debounceTimer = null; processChanges() returns when
\* nothing is pending, else empties the pending set and calls updateIndex
TimerFire ==
  /\ LoopFree
  /\ 0 \in watch.timers
  /\ LET w1 == [watch EXCEPT !.timers = @ \ {0}, !.debounceTimer = NoTimer]
     IN IF w1.pendingChanges = {}
          THEN /\ watch' = w1
               /\ UNCHANGED <<disk, clock, db, inv, faults, lastOk, burst, config>>
          ELSE /\ watch' = [w1 EXCEPT !.pendingChanges = {}]
               /\ burst' = [burst EXCEPT !.updates = Min(2, @ + 1)]
               /\ \E i \in Procs : Enter(i, "update", FALSE, {TRUE})
  /\ UNCHANGED <<calls, schema, lookup>>

\* time passes; a timer that is due fires before more time passes
Tick ==
  /\ ~watch.exited
  /\ 0 \notin watch.timers
  /\ watch' = [watch EXCEPT !.timers = {Max(0, t - TickMs) : t \in @},
                            !.debounceTimer = IF @ = NoTimer THEN @ ELSE Max(0, @ - TickMs)]
  /\ burst' = [burst EXCEPT !.sinceEvent = Min(DEBOUNCE_MS, @ + TickMs)]
  /\ UNCHANGED <<disk, clock, db, inv, calls, faults, lastOk, schema, lookup, config>>

\* SIGINT or SIGTERM
Cleanup ==
  /\ LoopFree
  /\ ~burst.shutdown
  /\ watch' = cleanup(watch)
  /\ burst' = [burst EXCEPT !.shutdown = TRUE]
  /\ UNCHANGED <<disk, clock, db, inv, calls, faults, lastOk, schema, lookup, config>>

\* progress of an updateIndex call the loop has started
StepWatch(i) ==
  /\ ~watch.exited
  /\ \A j \in Procs \ {i} : ~InSync(j)
  /\ \/ ScanDir(i)
     \/ Diff(i)
     \/ LoadContent(i)
     \/ ProcessFile(i, Fails)
     \/ Return(i)
     \/ Reset(i)

InitWatch ==
  /\ disk = InitDisk
  /\ clock = 1
  /\ db = EmptyDb
  /\ inv = [i \in Procs |-> IdleInv]
  /\ calls = 0
  /\ faults = 0
  /\ lastOk = [p \in Paths |-> NoneOk]
  /\ watch = [WatchOff EXCEPT !.watcher = TRUE]
  /\ burst = [NoBurst EXCEPT !.sinceEvent = DEBOUNCE_MS]
  /\ schema = NoSchema
  /\ lookup = NoLookup
  /\ config = NoConfigFile

NextWatch ==
  \/ \E name \in WatchNames : WatchEvent(name)
  \/ TimerFire
  \/ Tick
  \/ Cleanup
  \/ \E i \in Procs : StepWatch(i)
SpecWatch == InitWatch /\ [][NextWatch]_vars

\* a call is in its file loop with a file left to process
FilePending(i) ==
  /\ ~watch.exited
  /\ \A j \in Procs \ {i} : ~InSync(j)
  /\ inv[i].pc = "process"
  /\ inv[i].idx <= Len(inv[i].files)
\* the steps of an updateIndex call other than the processing of a file
StepCall(i) ==
  /\ ~watch.exited
  /\ \A j \in Procs \ {i} : ~InSync(j)
  /\ ScanDir(i) \/ Diff(i) \/ LoadContent(i) \/ Return(i) \/ Reset(i)

\* the event loop of the running process: time passes, a due timer runs
\* its callback, and an updateIndex call that can go on goes on. The file
\* loop is synchronous code: a call does not stay for ever before a file it
\* has to process. (ProcessFile(i, Fails) is enabled exactly when
\* FilePending(i) holds, and no call takes infinitely many such steps
\* without leaving the loop, so this is what weak fairness of the step
\* says.)
FairWatch ==
  /\ WF_vars(Tick)
  /\ WF_vars(TimerFire)
  /\ \A i \in Procs : WF_vars(StepCall(i))
  /\ \A i \in Procs : []<>~FilePending(i)
SpecWatchLive == InitWatch /\ [][NextWatch]_vars /\ FairWatch

\* watch mode in a project without a configuration file and in one whose
\* configuration takes the JavaScript extensions out of the language set
InitWatchConfig ==
  /\ disk = InitDisk
  /\ clock = 1
  /\ db = EmptyDb
  /\ inv = [i \in Procs |-> IdleInv]
  /\ calls = 0
  /\ faults = 0
  /\ lastOk = [p \in Paths |-> NoneOk]
  /\ watch = [WatchOff EXCEPT !.watcher = TRUE]
  /\ burst = [NoBurst EXCEPT !.sinceEvent = DEBOUNCE_MS]
  /\ schema = NoSchema
  /\ lookup = NoLookup
  /\ config \in {NoConfigFile, ConfigFile("{\"languages\":{\"javascript\":[]}}")}

SpecWatchConfig == InitWatchConfig /\ [][NextWatch]_vars

(***************************************************************************)
(* Schema creation (db/index.ts)                                           *)
(***************************************************************************)
CURRENT_SCHEMA_VERSION == 1

\* the rows a schema_version table can hold when initialization finds it:
\* none (a new store), the current version, or the version of another
\* release of the program
RecordedVersions == {{}} \cup {{v} : v \in 0..(CURRENT_SCHEMA_VERSION + 1)}

\* CREATE TABLE IF NOT EXISTS / CREATE INDEX IF NOT EXISTS: a table that
\* exists keeps its rows, and every table of the model exists
createIfNotExists(d) == d

\* what a mismatch would do if the tables were dropped before SCHEMA_SQL
initializeSchema_Recreate(d, version) ==
  [db |-> EmptyDb, version |-> {CURRENT_SCHEMA_VERSION}]

\* SELECT version FROM schema_version LIMIT 1: a row is found or not; the
\* current version is inserted only when there is none
initializeSchema(d, version) ==
  [db |-> createIfNotExists(d),
   version |-> IF version = {} THEN {CURRENT_SCHEMA_VERSION} ELSE version]

Initialized(res) ==
  /\ db' = res.db
  /\ schema' = [version |-> res.version, inits |-> schema.inits + 1]

InitializeSchema ==
  /\ schema.inits < MaxInits
  /\ \A i \in Procs : inv[i].pc \in {"idle", "done", "failed", "aborted"}
  /\ Initialized(initializeSchema(db, schema.version))
  /\ UNCHANGED <<disk, clock, inv, calls, faults, lastOk, watch, burst, lookup, config>>

InitSchema ==
  /\ disk = InitDisk
  /\ clock = 1
  /\ db = EmptyDb
  /\ inv = [i \in Procs |-> IdleInv]
  /\ calls = 0
  /\ faults = 0
  /\ lastOk = [p \in Paths |-> NoneOk]
  /\ watch = WatchOff
  /\ burst = NoBurst
  /\ schema \in {[NoSchema EXCEPT !.version = v] : v \in RecordedVersions}
  /\ lookup = NoLookup
  /\ config = NoConfigFile

NextSchema ==
  \/ InitializeSchema
  \/ calls = 0 /\ \E force \in BOOLEAN : Start(1, "build", force, {TRUE})
  \/ ScanDir(1)
  \/ LoadContent(1)
  \/ ProcessFile(1, {NoFail})
  \/ Return(1)

SpecSchema == InitSchema /\ [][NextSchema]_vars

(***************************************************************************)
(* The where command (commands/where.ts) and the lookups it calls          *)
(* (db/queries.ts). A name is the sequence of its characters.              *)
(***************************************************************************)
\* the stored names foo, Foo, foobar and bar
StoredNames ==
  << <<"f", "o", "o">>, <<"F", "o", "o">>, <<"f", "o", "o", "b", "a", "r">>,
     <<"b", "a", "r">> >>
\* queries: an exact hit, a hit only without case, a proper prefix, a
\* misspelling that shares three characters, an inner part, and no hit
Queries == {<<"f", "o", "o">>, <<"F", "O", "O">>, <<"f", "o", "o", "b">>, <<"f", "o", "o", "z">>,
            <<"o", "b">>, <<"z", "z">>}

\* the store with the functions named StoredNames[k], k in I, all in a.ts
SymbolRow(k) ==
  [id |-> k, file_path |-> "a.ts", name |-> StoredNames[k], kind |-> "function",
   line_start |-> k, exported |-> k = 1, is_default |-> FALSE,
   parent_symbol_id |-> Null]
StoreOf(I) ==
  [EmptyDb EXCEPT !.files["a.ts"] = [present |-> TRUE, language |-> "typescript",
                                      modified_at |-> 1, loc |-> Len(StoredNames),
                                      has_default_export |-> FALSE],
                  !.symbols = {SymbolRow(k) : k \in I},
                  !.seq.symbols = Len(StoredNames)]

lower(ch) ==
  CASE ch = "F" -> "f" [] ch = "O" -> "o" [] OTHER -> ch
toLowerCase(name) == [k \in DOMAIN name |-> lower(name[k])]
Take(name, n) == SubSeq(name, 1, IF n < Len(name) THEN n ELSE Len(name))
HasPrefix(name, prefix) ==
  Len(prefix) <= Len(name) /\ Take(name, Len(prefix)) = prefix
HasPart(name, part) ==
  \E k \in 1..(Len(name) + 1) :
    k + Len(part) - 1 <= Len(name) /\ SubSeq(name, k, k + Len(part) - 1) = part
\* name LIKE 'pattern%': LIKE does not distinguish the case of letters
LikePrefix(name, prefix) == HasPrefix(toLowerCase(name), toLowerCase(prefix))

\* the result count of the prefix lookup and of the suggestions
PrefixLimit == 20
SuggestionLimit == 5
\* the first n of a set of rows ordered by length of name
Shortest(S, n) ==
  IF Cardinality(S) <= n THEN S
  ELSE CHOOSE T \in SUBSET S :
         Cardinality(T) = n /\ \A t \in T, u \in S \ T : Len(t.name) <= Len(u.name)

\* results are the rows found; their order in the list is not kept
findSymbolByName(d, name) == {row \in d.symbols : row.name = name}
findSymbolByNameCaseInsensitive(d, name) ==
  {row \in d.symbols : toLowerCase(row.name) = toLowerCase(name)}
findSymbolByPrefix(d, prefix) ==
  Shortest({row \in d.symbols : LikePrefix(row.name, prefix)}, PrefixLimit)
\* SELECT DISTINCT name: one row of the result for each name
getSimilarSymbolNames(d, name, limit) ==
  {found.name :
     found \in Shortest({[name |-> row.name] :
                           row \in {r \in d.symbols :
                                      \/ HasPrefix(r.name, Take(name, 3))
                                      \/ HasPart(r.name, name)}},
                        limit)}

SymbolNotFoundError(symbol, suggestions) ==
  [name |-> "SymbolNotFoundError", symbol |-> symbol, suggestions |-> suggestions]

\* a later stage that replaces what an earlier stage found
Fallback_Always(results, next) == next
\* if (results.length === 0) { results = next }
Fallback(results, next) == IF results = {} THEN next ELSE results
\* the queries made, in order: a stage is entered only on an empty result
Stage(results, ran, stage) == IF results = {} THEN Append(ran, stage) ELSE ran

\* the action callback up to the point where it has results or throws
WhereStage(l, d, stage, found) ==
  LET results == IF stage = "exact" THEN found ELSE Fallback(l.results, found)
  IN [l EXCEPT !.pc = stage,
               !.ran = IF stage = "exact" THEN <<"exact">> ELSE Stage(l.results, @, stage),
               !.results = results,
               !.after = Append(@, results)]

WhereStart(symbol) ==
  /\ lookup.pc \in {"idle", "found", "thrown"}
  /\ lookup' = WhereStage([NoLookup EXCEPT !.symbol = symbol], db, "exact",
                          findSymbolByName(db, symbol))
  /\ UNCHANGED <<disk, clock, db, inv, calls, faults, lastOk, watch, burst, schema, config>>

WhereCaseInsensitive ==
  /\ lookup.pc = "exact"
  /\ lookup' = WhereStage(lookup, db, "caseInsensitive",
                          findSymbolByNameCaseInsensitive(db, lookup.symbol))
  /\ UNCHANGED <<disk, clock, db, inv, calls, faults, lastOk, watch, burst, schema, config>>

WherePrefix ==
  /\ lookup.pc = "caseInsensitive"
  /\ lookup' = WhereStage(lookup, db, "prefix", findSymbolByPrefix(db, lookup.symbol))
  /\ UNCHANGED <<disk, clock, db, inv, calls, faults, lastOk, watch, burst, schema, config>>

WhereReport ==
  /\ lookup.pc = "prefix"
  /\ lookup' = IF lookup.results = {}
               THEN [lookup EXCEPT !.pc = "thrown",
                                   !.ran = Append(@, "similar"),
                                   !.thrown = SymbolNotFoundError(lookup.symbol,
                                                getSimilarSymbolNames(db, lookup.symbol,
                                                                      SuggestionLimit))]
               ELSE [lookup EXCEPT !.pc = "found"]
  /\ UNCHANGED <<disk, clock, db, inv, calls, faults, lastOk, watch, burst, schema, config>>

InitWhere ==
  /\ disk = InitDisk
  /\ clock = 1
  /\ db \in {StoreOf(I) : I \in SUBSET DOMAIN StoredNames}
  /\ inv = [i \in Procs |-> IdleInv]
  /\ calls = 0
  /\ faults = 0
  /\ lastOk = [p \in Paths |-> NoneOk]
  /\ watch = WatchOff
  /\ burst = NoBurst
  /\ schema = NoSchema
  /\ lookup = NoLookup
  /\ config = NoConfigFile

NextWhere ==
  \/ \E symbol \in Queries : WhereStart(symbol)
  \/ WhereCaseInsensitive
  \/ WherePrefix
  \/ WhereReport

SpecWhere == InitWhere /\ [][NextWhere]_vars

(***************************************************************************)
(* Properties of the indexer                                               *)
(***************************************************************************)
\* the call in slot i has returned its result
Done(i, kind) == inv[i].pc = "done" /\ inv[i].kind = kind

\* the file the call in slot i processes in this step, when the step
\* records an error for it
ErrorStep(i) == Len(inv'[i].errors) > Len(inv[i].errors)
\* the step completes the processing of a file
OkStep(i) == inv'[i].filesIndexed > inv[i].filesIndexed
CurrentFile(i) == inv[i].files[inv[i].idx]

\* C1: per-file atomicity. Whenever a step of processFile throws, the rows
\* of the file in the four tables are after the attempt what they were
\* before it.
C1_PerFileAtomic ==
  [][\A i \in Procs :
       ErrorStep(i) => FileRows(db', CurrentFile(i).path) = FileRows(db, CurrentFile(i).path)]_vars

\* C2: staleness gating. When updateIndex has returned, a file that was
\* indexed with the modification time the listing reports was not
\* extracted, and a file the listing reports newer than stored, or not
\* indexed, (and which is still that file on disk) was extracted.
C2_StalenessGating ==
  \A i \in Procs : Done(i, "update") =>
    \A p \in Paths :
      /\ (inv[i].before[p] # NoTime /\ inv[i].currentFiles[p] = inv[i].before[p])
           => p \notin inv[i].extracted
      /\ (/\ inv[i].currentFiles[p] # NoTime
          /\ disk[p].mtime = inv[i].currentFiles[p]
          /\ (inv[i].before[p] = NoTime \/ inv[i].currentFiles[p] > inv[i].before[p]))
           => p \in inv[i].extracted

\* C3: cascade on deletion. When updateIndex has returned, a file that was
\* indexed and is not in the listing owns no row in any of the four tables.
C3_CascadeOnDeletion ==
  \A i \in Procs : Done(i, "update") =>
    \A p \in Paths :
      (inv[i].before[p] # NoTime /\ inv[i].currentFiles[p] = NoTime)
        => FileRows(db, p) = NoRows

C3_Witness ==
  \E i \in Procs : Done(i, "update") /\
    \E p \in Paths : inv[i].before[p] # NoTime /\ inv[i].currentFiles[p] = NoTime

\* C4: failure isolation. A throw while one file is processed never fails
\* the call; it is recorded in errors as {file, error}, once per failing
\* file, and when the call returns every file of the batch that has content
\* has been processed.
C4_FailureIsolated ==
  \A i \in Procs :
    /\ inv[i].pc # "failed"
    /\ {inv[i].errors[k].file : k \in DOMAIN inv[i].errors} = inv[i].threw
    /\ Len(inv[i].errors) = Cardinality(inv[i].threw)
    /\ inv[i].pc = "done" =>
         \A k \in DOMAIN inv[i].files :
           inv[i].files[k].content # NoText => inv[i].files[k].path \in inv[i].extracted

C4_Witness ==
  \E i \in Procs :
    /\ inv[i].pc = "done"
    /\ Len(inv[i].files) = 2
    /\ Len(inv[i].errors) = 1
    /\ inv[i].errors[1].file = inv[i].files[1].path
    /\ inv[i].filesIndexed = 1

\* rows of one table with the surrogate ids replaced by the position of the
\* row among the file's rows, and references by the position of the target
Rank(rows, id) == Cardinality({r \in rows : r.id < id})
RefRank(rows, id) ==
  IF id = Null THEN NoOrdinal
  ELSE IF \E r \in rows : r.id = id THEN Rank(rows, id) ELSE -2
SymbolsUpToIds(rows) ==
  {[ord |-> Rank(rows.symbols, s.id), name |-> s.name, kind |-> s.kind,
    line_start |-> s.line_start, exported |-> s.exported, is_default |-> s.is_default,
    parent |-> RefRank(rows.symbols, s.parent_symbol_id)] : s \in rows.symbols}
ImportsUpToIds(rows) ==
  {[ord |-> Rank(rows.imports, m.id), imported_path |-> m.imported_path,
    imported_name |-> m.imported_name, alias |-> m.alias,
    is_external |-> m.is_external, package_name |-> m.package_name,
    line_number |-> m.line_number] : m \in rows.imports}
ImportsUpToIdsAndPath(rows) ==
  {[ord |-> Rank(rows.imports, m.id),
    imported_name |-> m.imported_name, alias |-> m.alias,
    is_external |-> m.is_external, package_name |-> m.package_name,
    line_number |-> m.line_number] : m \in rows.imports}
ExportsUpToIds(rows) ==
  {[ord |-> Rank(rows.exports, e.id), exported_name |-> e.exported_name,
    symbol |-> RefRank(rows.symbols, e.symbol_id), is_reexport |-> e.is_reexport,
    source_path |-> e.source_path, line_number |-> e.line_number] : e \in rows.exports}

\* the step completes the processing of a file whose rows were last
\* completely written from the same content
ReindexStep(i) == OkStep(i) /\ SameAsLastOk(CurrentFile(i))

\* C5 as stated: re-indexing an unchanged file leaves the same symbol,
\* import and export rows, every field value included.
C5_ReindexIdentical ==
  [][\A i \in Procs :
       ReindexStep(i) =>
         LET old == FileRows(db, CurrentFile(i).path)
             new == FileRows(db', CurrentFile(i).path)
         IN /\ new.symbols = old.symbols
            /\ new.imports = old.imports
            /\ new.exports = old.exports]_vars

\* C5 amended: re-indexing an unchanged file leaves the same number of
\* symbol, import and export rows, with the same values in every field
\* other than the surrogate ids and imports.imported_path; the ids are new
\* and the references (parent_symbol_id, symbol_id) point to the rows at the
\* same positions; imported_path is resolved against the disk again and is
\* the same when the same files are on disk.
C5_ReindexSameUpToIds ==
  [][\A i \in Procs :
       ReindexStep(i) =>
         LET old == FileRows(db, CurrentFile(i).path)
             new == FileRows(db', CurrentFile(i).path)
         IN /\ Cardinality(new.symbols) = Cardinality(old.symbols)
            /\ Cardinality(new.imports) = Cardinality(old.imports)
            /\ Cardinality(new.exports) = Cardinality(old.exports)
            /\ SymbolsUpToIds(new) = SymbolsUpToIds(old)
            /\ ImportsUpToIdsAndPath(new) = ImportsUpToIdsAndPath(old)
            /\ SameDiskAsLastOk(CurrentFile(i)) => ImportsUpToIds(new) = ImportsUpToIds(old)
            /\ ExportsUpToIds(new) = ExportsUpToIds(old)]_vars

C5_Witness ==
  \E i \in Procs : \E p \in inv[i].reindexed :
    /\ FileRows(db, p).symbols # {}
    /\ \E s \in FileRows(db, p).symbols : s.parent_symbol_id # Null

\* C6: full build discards earlier state. When buildIndex has returned,
\* with or without force, every file row is of a file its scan found.
C6_BuildDiscardsOldState ==
  \A i \in Procs : Done(i, "build") =>
    \A p \in Indexed(db) : inv[i].currentFiles[p] # NoTime

\* C9: single writer. Two calls against the same project root are never in
\* progress together.
Active(i) == inv[i].pc \in {"scan", "diff", "load", "process"}
C9_SingleWriter ==
  Cardinality({i \in Procs : Active(i)}) <= 1

(***************************************************************************)
(* Properties of the watch loop                                            *)
(***************************************************************************)
\* the step starts an updateIndex call
UpdateStarts == \E i \in Procs : inv[i].pc = "idle" /\ inv'[i].pc = "scan"

\* C7: debounce. Within a burst of accepted events at most one updateIndex
\* call is started, none is started before the debounce delay has passed
\* since the last event, and once the burst is over and its timer has run
\* exactly one has been started.
C7_OneUpdatePerBurst ==
  /\ [](burst.updates <= 1)
  /\ []((/\ burst.events > 0
         /\ burst.sinceEvent >= DEBOUNCE_MS
         /\ watch.timers = {}
         /\ ~burst.shutdown) => burst.updates = 1)
  /\ [][UpdateStarts => burst.sinceEvent >= DEBOUNCE_MS]_vars

C7_Witness ==
  burst.events = 2 /\ burst.updates = 1 /\ watch.timers = {}

\* C8: single flight. No two updateIndex calls of the watch loop are in
\* progress together.
C8_SingleFlight ==
  \A i, j \in Procs : (Active(i) /\ Active(j)) => i = j

\* C10: shutdown. Once the signal is handled the watcher is closed, no
\* timer is left armed, the process has exited, and no updateIndex call
\* starts.
C10_ShutdownStopsLoop ==
  /\ [](burst.shutdown => (watch.exited /\ ~watch.watcher /\ watch.timers = {}))
  /\ [][burst.shutdown => ~UpdateStarts]_vars

C10_Witness ==
  burst.shutdown /\ watch.pendingChanges # {}

\* C11: every stored symbol has a parent exactly when it is a method or a
\* property, and the parent is the row of a class of the same file, the
\* class that declares it (the last class that starts at or before it).
C11_ParentIsDeclaringClass ==
  \A s \in db.symbols :
    /\ s.parent_symbol_id # Null <=> s.kind \in {"method", "property"}
    /\ s.parent_symbol_id # Null =>
         \E c \in db.symbols :
           /\ c.id = s.parent_symbol_id
           /\ c.kind = "class"
           /\ c.file_path = s.file_path
           /\ c.line_start <= s.line_start
           /\ \A c2 \in db.symbols :
                (c2.kind = "class" /\ c2.file_path = s.file_path
                   /\ c2.line_start <= s.line_start) => c2.line_start <= c.line_start

\* a build has stored a class with a method and a field, both pointing to
\* the row of the class
C11_Witness ==
  /\ Done(1, "build")
  /\ \E c, m, y \in db.symbols :
       /\ c.kind = "class" /\ m.kind = "method" /\ y.kind = "property"
       /\ m.parent_symbol_id = c.id /\ y.parent_symbol_id = c.id
       /\ m.file_path = c.file_path /\ y.file_path = c.file_path

\* the rows d1 has for the imports of one file, written on top of d0 in
\* order: every relative import that resolveImportPath cannot resolve on
\* disk dk has a null imported_path
UnresolvedAreNull(imports, dk, d0, d1) ==
  \A k \in 1..Len(imports) :
    (~imports[k].is_external /\ resolveImportPath(imports[k].imported_path, dk) = NullPath)
      => \A m \in d1.imports :
           m.id = d0.seq.imports + k => m.imported_path = NullPath

\* C12: when a file has been indexed, the row of each of its relative
\* imports that cannot be resolved to a file on disk has a null
\* imported_path.
C12_UnresolvedIsNull ==
  [][\A i \in Procs :
       OkStep(i) =>
         UnresolvedAreNull(extractFromFile(CurrentFile(i).content).imports, disk, db, db')]_vars

ExternalHaveNoPath(imports) ==
  \A k \in 1..Len(imports) : imports[k].is_external => imports[k].imported_path = NullPath

\* C13: an external import has no target path: in what the extractor
\* returns for a file, and in every stored import row (path resolution
\* leaves external imports alone).
C13_ExternalHasNoPath ==
  /\ \A i \in Procs : \A k \in 1..Len(inv[i].files) :
       ExternalHaveNoPath(extractFromFile(inv[i].files[k].content).imports)
  /\ \A m \in db.imports : m.is_external => m.imported_path = NullPath

\* a build has stored an external import and a relative one that resolved
C13_Witness ==
  /\ Done(1, "build")
  /\ \E m \in db.imports : m.importer_path = "a.ts" /\ m.is_external
  /\ \E m \in db.imports :
       m.importer_path = "a.ts" /\ ~m.is_external /\ m.imported_path = "b.ts"

DefaultOnlyIfExported(symbols) ==
  \A k \in 1..Len(symbols) :
    /\ symbols[k].is_default => symbols[k].exported
    /\ symbols[k].kind \in {"method", "property", "variable", "interface", "type", "enum"}
         => ~symbols[k].is_default

\* C14: in what the extractor returns for a file, a symbol that is a
\* default export is exported, and no method, property, plain variable,
\* interface, type alias or enum is a default export.
C14_DefaultImpliesExported ==
  \A i \in Procs : \A k \in 1..Len(inv[i].files) :
    DefaultOnlyIfExported(extractFromFile(inv[i].files[k].content).symbols)

\* a file with a default-exported class and a default-exported interface
\* has been extracted and stored
C14_Witness ==
  /\ Done(1, "build")
  /\ \E s \in db.symbols : s.kind = "class" /\ s.is_default /\ s.exported
  /\ \E s \in db.symbols : s.name = "J" /\ s.kind = "interface" /\ s.exported /\ ~s.is_default

SourceIffReexport(exports) ==
  \A k \in 1..Len(exports) :
    exports[k].source_path # NullPath <=> exports[k].is_reexport

\* C15: in what the extractor returns for a file, an export row has a
\* source_path exactly when it is a re-export, whatever the form of the
\* export statement (default, named clause, namespace, direct).
C15_SourceIffReexport ==
  \A i \in Procs : \A k \in 1..Len(inv[i].files) :
    SourceIffReexport(extractFromFile(inv[i].files[k].content).exports)

\* a file with a namespace re-export and a direct export has been
\* extracted and stored
C15_Witness ==
  /\ Done(1, "build")
  /\ \E e \in db.exports :
       e.file_path = "a.ts" /\ e.exported_name = "*" /\ e.is_reexport /\ e.source_path # NullPath
  /\ \E e \in db.exports :
       e.file_path = "a.ts" /\ e.symbol_id # Null /\ ~e.is_reexport /\ e.source_path = NullPath

\* the step is a call of initializeSchema
InitializeSchemaStep == schema'.inits > schema.inits
\* the store records a schema version other than the current one
Mismatch == schema.version \notin {{}, {CURRENT_SCHEMA_VERSION}}
TablesEmpty(d) ==
  /\ \A p \in Paths : ~d.files[p].present
  /\ d.symbols = {} /\ d.imports = {} /\ d.exports = {}

\* C16: when initializeSchema runs against a store whose recorded schema
\* version differs from the current one, the tables are re-created: their
\* rows are gone and the recorded version is the current one.
C16_MismatchRecreates ==
  [][(InitializeSchemaStep /\ Mismatch) =>
       (TablesEmpty(db') /\ schema'.version = {CURRENT_SCHEMA_VERSION})]_vars

Stages == <<"exact", "caseInsensitive", "prefix", "similar">>
Exact == findSymbolByName(db, lookup.symbol)
CaseInsensitive == findSymbolByNameCaseInsensitive(db, lookup.symbol)
Prefix == findSymbolByPrefix(db, lookup.symbol)
Ran(stage) == \E k \in DOMAIN lookup.ran : lookup.ran[k] = stage

\* C18: the where command queries in the order exact, case-insensitive,
\* prefix, suggestions, each only when every earlier one found nothing; a
\* non-empty result of a stage is the result of every later stage; the
\* command throws exactly when the three lookups are empty, and throws
\* SymbolNotFoundError with the list of suggestions.
C18_LookupOrder ==
  /\ lookup.ran = SubSeq(Stages, 1, Len(lookup.ran))
  /\ Ran("caseInsensitive") => Exact = {}
  /\ Ran("prefix") => Exact = {} /\ CaseInsensitive = {}
  /\ Ran("similar") => Exact = {} /\ CaseInsensitive = {} /\ Prefix = {}
  /\ \A j, k \in DOMAIN lookup.after :
       (j < k /\ lookup.after[j] # {}) => lookup.after[k] = lookup.after[j]
  /\ lookup.after # << >> => lookup.results = lookup.after[Len(lookup.after)]
  /\ lookup.pc = "found" =>
       /\ lookup.results # {}
       /\ lookup.results = IF Exact # {} THEN Exact
                            ELSE IF CaseInsensitive # {} THEN CaseInsensitive
                            ELSE Prefix
       /\ lookup.thrown = NoError
       /\ ~Ran("similar")
  /\ lookup.pc = "thrown" =>
       /\ Exact = {} /\ CaseInsensitive = {} /\ Prefix = {}
       /\ lookup.ran = Stages
       /\ lookup.thrown = SymbolNotFoundError(lookup.symbol,
                             getSimilarSymbolNames(db, lookup.symbol, SuggestionLimit))
  /\ lookup.pc \notin {"thrown"} => lookup.thrown = NoError

\* an exact hit on a store where the later lookups would find more rows,
\* and the command has reported the exact rows only
C18_Witness ==
  /\ lookup.pc = "found"
  /\ lookup.ran = <<"exact">>
  /\ Exact # {}
  /\ CaseInsensitive # Exact
  /\ Prefix # Exact
  /\ lookup.results = Exact

\* no lookup finds a row, and the error carries a suggestion
C18_WitnessThrown ==
  /\ lookup.pc = "thrown"
  /\ lookup.thrown.suggestions # {}

\* the step is the entry of a call in slot i
Enters(i) == inv[i].pc = "idle" /\ inv'[i].pc # "idle"
Untouched(i) ==
  /\ inv'[i].files = << >> /\ inv'[i].filesIndexed = 0
  /\ inv'[i].extracted = {} /\ inv'[i].reindexed = {} /\ inv'[i].errors = << >>

\* C19: a call of buildIndex or updateIndex that meets a malformed
\* codemap.config.json throws ConfigError, one that cannot open the store
\* throws too, and in both cases the tables are what they were before the
\* call and no file has been processed; nothing more happens in the call.
C19_AbortBeforeMutation ==
  [][\A i \in Procs :
       /\ (Enters(i) /\ loadConfig(config).threw # "none") =>
            inv'[i].thrown = "ConfigError"
       /\ (Enters(i) /\ inv'[i].thrown # "none") =>
            (inv'[i].pc = "aborted" /\ db' = db /\ Untouched(i))
       /\ (inv[i].pc = "aborted" /\ inv'[i] # inv[i]) => inv'[i] = IdleInv]_vars

\* a forced build has met a malformed configuration on a store with rows
C19_Witness ==
  /\ inv[1].pc = "aborted" /\ inv[1].thrown = "ConfigError"
  /\ inv[1].kind = "build" /\ inv[1].force
  /\ db.symbols # {}

\* a forced build could not open a store with rows
C19_WitnessStore ==
  /\ inv[1].pc = "aborted" /\ inv[1].thrown = "StoreError"
  /\ inv[1].kind = "build" /\ inv[1].force
  /\ db.symbols # {}

\* the name passes the filter stated for the watcher: no component is one
\* of the fixed directories, and the extension is in the language set of
\* the configuration the project has
InConfiguredSet(name) ==
  /\ \A k \in DOMAIN name.parts : name.parts[k] \notin ignoreDirs
  /\ ToLowerCase(name.ext) \in getAllExtensions(loadConfig(config).config)

\* C20: a name enters the pending set of the watcher only if none of its
\* components is a fixed non-source directory and its extension belongs to
\* the configured language set.
C20_AcceptsConfiguredOnly ==
  [][\A name \in watch'.pendingChanges \ watch.pendingChanges :
       InConfiguredSet(name)]_vars

\* what an import statement says, read off its text: the default binding,
\* the named bindings in order (name, and alias when renamed), the
\* namespace binding, whether the specifier is external and its package
NoBindings ==
  [isImport |-> FALSE, default |-> NoAlias, named |-> << >>, namespace |-> NoAlias,
   external |-> FALSE, package |-> NoPackage]
Bindings(stmt) ==
  CASE stmt = "import { x } from './b'" ->
         [NoBindings EXCEPT !.isImport = TRUE,
                            !.named = << [name |-> "x", alias |-> NoAlias] >>]
    [] stmt = "import fs from 'fs'" ->
         [NoBindings EXCEPT !.isImport = TRUE, !.default = "fs",
                            !.external = TRUE, !.package = "fs"]
    [] stmt = "import * as n from './gone'" ->
         [NoBindings EXCEPT !.isImport = TRUE, !.namespace = "n"]
    [] stmt = "import './b'" ->
         [NoBindings EXCEPT !.isImport = TRUE]
    [] stmt = "import d, { x as y } from 'fs'" ->
         [NoBindings EXCEPT !.isImport = TRUE, !.default = "d",
                            !.named = << [name |-> "x", alias |-> "y"] >>,
                            !.external = TRUE, !.package = "fs"]
    [] stmt = "import { p, q as r } from '@s/pkg/sub'" ->
         [NoBindings EXCEPT !.isImport = TRUE,
                            !.named = << [name |-> "p", alias |-> NoAlias],
                                         [name |-> "q", alias |-> "r"] >>,
                            !.external = TRUE, !.package = "@s/pkg"]
    [] OTHER -> NoBindings

\* the rows the statement is to yield when it is written on the line
BindingRow(b, line, name, alias) ==
  [imported_name |-> name, alias |-> alias, is_external |-> b.external,
   package_name |-> b.package, line_number |-> line]
ExpectedImports(b, line) ==
  IF ~b.isImport THEN << >>
  ELSE IF b.default = NoAlias /\ b.named = << >> /\ b.namespace = NoAlias
    THEN << BindingRow(b, line, "*", NoAlias) >>
  ELSE (IF b.default # NoAlias THEN << BindingRow(b, line, "default", b.default) >>
        ELSE << >>)
       \o [k \in 1..Len(b.named) |->
             BindingRow(b, line, b.named[k].name, b.named[k].alias)]
       \o (IF b.namespace # NoAlias THEN << BindingRow(b, line, "*", b.namespace) >>
           ELSE << >>)
ExpectedImportsOf(content) ==
  Concat([k \in 1..Len(content) |->
            ExpectedImports(Bindings(content[k]), RowOf(content, k) + 1)], 1)

\* the import rows stored for a file, in the order of their ids, without
\* the id and the paths
StoredImportsOf(rows) ==
  [k \in 1..Cardinality(rows) |->
     LET m == CHOOSE r \in rows : Rank(rows, r.id) = k - 1
     IN [imported_name |-> m.imported_name, alias |-> m.alias,
         is_external |-> m.is_external, package_name |-> m.package_name,
         line_number |-> m.line_number]]
ImportsMatch(rows, content) == StoredImportsOf(rows) = ExpectedImportsOf(content)

\* C21: the import rows of a file are, statement by statement and in source
\* order, a row 'default' for a default binding (alias the bound name), one
\* row per named specifier with the original name (alias only if renamed),
\* a row '*' for a namespace binding (alias the bound name), and the single
\* row '*' without alias for a statement without a binding clause; every
\* row carries the statement's external flag, package name and line.
C21_ImportRowsPerBinding ==
  Done(1, "build") =>
    ImportsMatch({m \in db.imports : m.importer_path = "a.ts"}, disk["a.ts"].content)

\* a build has stored the two rows of a two-specifier import, p unaliased
\* before q aliased r, with the package of the scoped specifier
C21_Witness ==
  /\ Done(1, "build")
  /\ \E m1, m2 \in db.imports :
       /\ m1.importer_path = "a.ts" /\ m2.importer_path = "a.ts"
       /\ m1.id < m2.id /\ m1.line_number = m2.line_number
       /\ m1.imported_name = "p" /\ m1.alias = NoAlias
       /\ m2.imported_name = "q" /\ m2.alias = "r"
       /\ m1.package_name = "@s/pkg" /\ m2.is_external

\* the names an export statement declares when it directly wraps a
\* declaration (no clause, no default, no source), read off its text
Declared(stmt) ==
  CASE stmt = "export function f() {}" -> {"f"}
    [] stmt = "export const a = () => {}" -> {"a"}
    [] stmt = "export const v = 1" -> {"v"}
    [] stmt = "export class K { m() {} y = 1 }" -> {"K"}
    [] stmt = "export interface I {}" -> {"I"}
    [] stmt = "export enum E {}" -> {"E"}
    [] stmt = "export const o = () => { function i() {} }" -> {"o"}
    [] stmt = "export const u = 1, t = 2" -> {"u", "t"}
    [] OTHER -> {}

\* the export rows stored for the statement on the line are one row, which
\* names a declared symbol and refers to the row of that symbol
DirectExportRow(d, path, line, names) ==
  LET rows == {e \in d.exports : e.file_path = path /\ e.line_number = line}
  IN /\ Cardinality(rows) = 1
     /\ \A e \in rows :
          /\ e.exported_name \in names
          /\ ~e.is_reexport
          /\ \E y \in d.symbols :
               /\ y.id = e.symbol_id /\ y.file_path = path
               /\ y.name = e.exported_name /\ y.line_start = line
               /\ y.exported

\* C22: an export statement that directly wraps a declaration has exactly
\* one export row, whose exported name and symbol reference are those of
\* the symbol extracted from the wrapped declaration, with is_reexport
\* false.
C22_DirectExportIdentifiesSymbol ==
  Done(1, "build") =>
    \A k \in DOMAIN disk["a.ts"].content :
      Declared(disk["a.ts"].content[k]) # {} =>
        DirectExportRow(db, "a.ts", RowOf(disk["a.ts"].content, k) + 1,
                        Declared(disk["a.ts"].content[k]))

\* the step is the firing of a timer
TimerFires == 0 \in watch.timers /\ 0 \notin watch'.timers /\ ~watch'.exited

\* C23: at most one debounce timer is pending; it is the one the last
\* accepted event armed (the one debounceTimer holds), and the timer that
\* fires is that one: a timer replaced by a later event is not pending any
\* more and does not fire. (After the exit of the process no timer is
\* pending at all.)
C23_OneTimerPending ==
  /\ [](/\ Cardinality(watch.timers) <= 1
        /\ ~watch.exited =>
             watch.timers = IF watch.debounceTimer = NoTimer THEN {}
                            ELSE {watch.debounceTimer})
  /\ [][TimerFires => (watch.timers = {0} /\ watch.debounceTimer = 0
                        /\ watch'.timers = {} /\ watch'.debounceTimer = NoTimer)]_vars

\* a second name has been accepted in a burst, and the one pending timer
\* is the newly armed one
C23_Witness ==
  /\ burst.events = 2
  /\ Cardinality(watch.pendingChanges) = 2
  /\ watch.timers = {DEBOUNCE_MS}
  /\ watch.debounceTimer = DEBOUNCE_MS

\* in the symbols emitted for a file every parent ordinal is the ordinal of
\* an earlier symbol, a class
ParentsFirst(symbols) ==
  \A k \in DOMAIN symbols :
    symbols[k].parent_symbol_id # NoOrdinal =>
      /\ symbols[k].parent_symbol_id >= 0
      /\ symbols[k].parent_symbol_id < k - 1
      /\ symbols[symbols[k].parent_symbol_id + 1].kind = "class"
\* every stored member has the id of its parent, a row stored before it
ParentsResolved(d) ==
  \A y \in d.symbols :
    y.kind \in {"method", "property"} =>
      /\ y.parent_symbol_id # Null
      /\ y.parent_symbol_id < y.id
      /\ \E c \in d.symbols : c.id = y.parent_symbol_id /\ c.file_path = y.file_path

\* C24: in the symbols extracted from a file a symbol with a parent ordinal
\* comes after its parent, so that the insertion in extraction order finds
\* the id of the parent in the map: no stored method or property is left
\* without the id of its class.
C24_ParentBeforeMember ==
  /\ \A p \in Paths : ParentsFirst(extractFromFile(disk[p].content).symbols)
  /\ ParentsResolved(db)

\* a build has stored a class that is not the first symbol of its file,
\* with a member that refers to it
C24_Witness ==
  /\ Done(1, "build")
  /\ \E f, c, m \in db.symbols :
       /\ f.file_path = "a.ts" /\ c.file_path = "a.ts" /\ m.file_path = "a.ts"
       /\ f.id < c.id /\ c.kind = "class"
       /\ m.kind = "method" /\ m.parent_symbol_id = c.id /\ c.id < m.id

\* C25: when a build or an update returns, every file of the batch it
\* loaded is counted in filesIndexed or has an entry in errors, a file with
\* empty or unreadable content included: the two numbers add up to the
\* number of files of the batch.
C25_EveryFileAccounted ==
  inv[1].pc = "done" =>
    inv[1].filesIndexed + Len(inv[1].errors) = Len(inv[1].files)

\* the files are as the listing of call i found them
DiskAsListed(i) == \A p \in Paths : disk[p].mtime = inv[i].currentFiles[p]

\* C26: when an update returns an empty errors list and the file system is
\* as the update's listing found it, the stale, new and deleted sets
\* computed against that listing are empty, so that an update that follows
\* at once has nothing to process.
C26_UpdateConverges ==
  (Done(1, "update") /\ inv[1].errors = << >> /\ DiskAsListed(1)) =>
    /\ getStaleFiles(db, inv[1].currentFiles) = {}
    /\ getNewFiles(db, inv[1].currentFiles) = {}
    /\ getDeletedFiles(db, inv[1].currentFiles) = {}

\* no accepted event for DEBOUNCE_MS or more
Quiet == burst.sinceEvent = DEBOUNCE_MS
\* the step of the timer callback that takes the pending set
TakesPending == watch.pendingChanges # {} /\ watch'.pendingChanges = {}

C27_WitnessAfterError ==
  \E i, j \in Procs :
    /\ inv[i].pc = "done" /\ inv[i].kind = "update" /\ inv[i].errors # << >>
    /\ inv[j].pc = "scan" /\ inv[j].kind = "update"
    /\ watch.pendingChanges = {}

\* the rows of p have been written completely, from the content of a read
Indexed_From(p) == db.files[p].present /\ lastOk[p] # NoneOk

\* C28: the modification time stored for a file is the one the loader took
\* before it read the content, so it is never newer than the file the
\* content came from: a file on disk whose stored time is not older than
\* its time on disk has the rows of its content on disk, and a file that
\* was modified after the stat has a greater time on disk than the stored
\* one, which makes it stale for the next update.
C28_StatBeforeRead ==
  \A p \in Paths :
    (Indexed_From(p) /\ p \in OnDisk(disk)) =>
      /\ db.files[p].modified_at <= disk[p].mtime
      /\ db.files[p].modified_at = disk[p].mtime => lastOk[p].content = disk[p].content

\* a call has returned after it indexed the content of a file that was
\* written once, between the stat and the read: the rows are those of the
\* new content, the stored time is the one of the first version, and the
\* file is stale
C28_Witness ==
  \E p \in Paths :
    /\ inv[1].pc = "done" /\ p \in inv[1].extracted
    /\ Indexed_From(p) /\ p \in OnDisk(disk)
    /\ lastOk[p].content = disk[p].content
    /\ disk[p].content # InitDisk[p].content
    /\ db.files[p].modified_at = InitDisk[p].mtime
    /\ db.files[p].modified_at < disk[p].mtime
    /\ disk[p].mtime = InitDisk[p].mtime + 1
    /\ p \in getStaleFiles(db, [q \in Paths |-> disk[q].mtime])

\* every symbol of the result that is marked exported is referred to by an
\* export row of the result
ExportedHaveRows(r) ==
  \A k \in DOMAIN r.symbols :
    r.symbols[k].exported =>
      \E e \in DOMAIN r.exports : r.exports[e].symbol_id = k - 1

\* C29: in the result of an extraction every symbol marked exported has an
\* export row whose symbol reference is the ordinal of that symbol, for
\* every shape of declaration (several declarators in one exported
\* statement and two declarations that start on one line included).
C29_ExportedSymbolHasRow ==
  Done(1, "build") => ExportedHaveRows(extractFromFile(disk["a.ts"].content))

\* id is null or the id of a stored symbol of the file
SymbolOfFile(id, path) ==
  id = Null \/ \E y \in db.symbols : y.id = id /\ y.file_path = path

\* C30: after any sequence of builds and updates every stored export row
\* refers to no symbol or to a stored symbol of its own file, and every
\* stored symbol has no parent or a stored parent of its own file: no row
\* is linked to a symbol of another file or to an id of an earlier pass.
C30_ReferencesWithinFile ==
  /\ \A e \in db.exports : SymbolOfFile(e.symbol_id, e.file_path)
  /\ \A y \in db.symbols : SymbolOfFile(y.parent_symbol_id, y.file_path)

\* an update has indexed a file again: its export and its member refer to
\* symbols of the new pass, whose ids are not the ordinals
C30_Witness ==
  /\ Done(1, "update")
  /\ \E p \in inv[1].extracted, e \in db.exports, y \in db.symbols :
       /\ e.file_path = p /\ y.file_path = p
       /\ e.symbol_id # Null /\ y.parent_symbol_id # Null
       /\ \A z \in db.symbols : z.file_path = p => z.id > Cardinality(db.symbols)

====
